---------------------------- MODULE Spec2Model ----------------------------
(***************************************************************************)
(* FoodieBot: the chat pipeline of app.py, the context and engagement      *)
(* score of convo.py, the intent extraction and reply generation of        *)
(* convo_llm.py.                                                           *)
(*                                                                         *)
(* Representation of Python values.                                        *)
(*   str    a sequence of atoms; an atom is a TLA+ string standing for an  *)
(*          indivisible run of characters (one character in the user       *)
(*          messages, so that substring tests and regular expressions are  *)
(*          computed character by character).  "nbsp" is U+00A0.           *)
(*   float  a natural number of hundredths (12.50 is 1250).                *)
(*   Values whose Python type varies at run time are tagged records:       *)
(*   PyStr, PyNum, PyBool, PyList, PyDict, PyNone.                         *)
(*   dict   a function from keys to values whose DOMAIN is the key set.    *)
(***************************************************************************)
EXTENDS Integers, Sequences, FiniteSets, TLC

VARIABLES
    CONTEXTS,   \* app.py CONTEXTS: session id -> reference of a context object (0: no entry)
    heap,       \* the context objects, by reference
    req,        \* the chat requests in flight: position and local variables of each
    call,       \* the call under study of a function checked on its own: arguments and result
    analytics   \* rows of the conversations table written by log_turn

vars == <<CONTEXTS, heap, req, call, analytics>>

-----------------------------------------------------------------------------
(* Python values *)

PyNone == [t |-> "none"]
PyStr(s) == [t |-> "str", s |-> s]
PyNum(n) == [t |-> "num", n |-> n]
PyBool(b) == [t |-> "bool", b |-> b]
PyList(l) == [t |-> "list", l |-> l]
PyDict(d) == [t |-> "dict", d |-> d]

EmptyDict == [k \in {} |-> PyNone]

Put(d, k, v) == [kk \in (DOMAIN d) \cup {k} |-> IF kk = k THEN v ELSE d[kk]]

\* dict.get(k, default)
Get(d, k, default) == IF k \in DOMAIN d THEN d[k] ELSE default

\* bool(v): Python truthiness
Truthy(v) ==
    CASE v.t = "none" -> FALSE
      [] v.t = "str"  -> v.s # <<>>
      [] v.t = "num"  -> v.n # 0
      [] v.t = "bool" -> v.b
      [] v.t = "list" -> v.l # <<>>
      [] v.t = "dict" -> DOMAIN v.d # {}

\* a or b
PyOr(a, b) == IF Truthy(a) THEN a ELSE b

Max(a, b) == IF a >= b THEN a ELSE b
Min(a, b) == IF a <= b THEN a ELSE b

-----------------------------------------------------------------------------
(* str operations *)

\* what \s of re and str.strip() take for white space
Whitespace == {" ", "\t", "\n", "\r", "nbsp"}

DigitChars == <<"0", "1", "2", "3", "4", "5", "6", "7", "8", "9">>

DigitSet == {DigitChars[i] : i \in 1..10}

DigitVal(c) == (CHOOSE i \in 1..10 : DigitChars[i] = c) - 1

LowerOf == [A |-> "a", B |-> "b", C |-> "c", D |-> "d", E |-> "e", F |-> "f",
            G |-> "g", H |-> "h", I |-> "i", J |-> "j", K |-> "k", L |-> "l",
            M |-> "m", N |-> "n", O |-> "o", P |-> "p", Q |-> "q", R |-> "r",
            S |-> "s", T |-> "t", U |-> "u", V |-> "v", W |-> "w", X |-> "x",
            Y |-> "y", Z |-> "z"]

\* str.lower()
lower(s) == [i \in 1..Len(s) |-> IF s[i] \in DOMAIN LowerOf THEN LowerOf[s[i]] ELSE s[i]]

\* kw in txt
contains(kw, txt) ==
    \E i \in 1..(Len(txt) - Len(kw) + 1) : SubSeq(txt, i, i + Len(kw) - 1) = kw

\* any(w in txt for w in words)
any_in(words, txt) == \E k \in 1..Len(words) : contains(words[k], txt)

\* the end of the longest run of atoms of S that starts at j (j itself when there is none)
SkipWhile(txt, j, S) ==
    CHOOSE k \in j..(Len(txt) + 1) :
        /\ \A m \in j..(k - 1) : txt[m] \in S
        /\ (k = Len(txt) + 1 \/ txt[k] \notin S)

\* str.strip()
strip(s) ==
    LET a == SkipWhile(s, 1, Whitespace)
        b == IF a > Len(s) THEN a - 1
             ELSE CHOOSE k \in a..Len(s) :
                      /\ s[k] \notin Whitespace
                      /\ \A m \in (k + 1)..Len(s) : s[m] \in Whitespace
    IN  SubSeq(s, a, b)

\* the place after a match of \d+(?:\.\d+)? that starts at j; 0 when there is none
NumberEnd(txt, j) ==
    LET e1 == SkipWhile(txt, j, DigitSet)
        e2 == SkipWhile(txt, e1 + 1, DigitSet)
    IN  IF j > Len(txt) \/ e1 = j THEN 0
        ELSE IF e1 <= Len(txt) /\ txt[e1] = "." /\ e2 > e1 + 1 THEN e2
        ELSE e1

\* the place after a match of \d+ that starts at j; 0 when there is none
DigitsEnd(txt, j) ==
    LET e1 == SkipWhile(txt, j, DigitSet)
    IN  IF j > Len(txt) \/ e1 = j THEN 0 ELSE e1

RECURSIVE IntOf(_)
\* int of a run of digits
IntOf(ds) ==
    IF ds = <<>> THEN 0
    ELSE 10 * IntOf(SubSeq(ds, 1, Len(ds) - 1)) + DigitVal(ds[Len(ds)])

\* float() of digits with an optional fraction of at most two digits, in hundredths
FloatOfDigits(ds) ==
    LET e1 == SkipWhile(ds, 1, DigitSet)
        whole == IntOf(SubSeq(ds, 1, e1 - 1))
        frac == SubSeq(ds, e1 + 1, Len(ds))
        h == IF frac = <<>> THEN 0
             ELSE IF Len(frac) = 1 THEN 10 * DigitVal(frac[1])
             ELSE 10 * DigitVal(frac[1]) + DigitVal(frac[2])
    IN  100 * whole + h

-----------------------------------------------------------------------------
(* convo.py *)

ENGAGEMENT_FACTORS ==
    [specific_preferences |-> 15, dietary_restrictions |-> 10, budget_mention |-> 5,
     mood_indication |-> 20, question_asking |-> 10, enthusiasm_words |-> 8,
     price_inquiry |-> 25, order_intent |-> 30, nutrient_preference |-> 12]

NEGATIVE_FACTORS ==
    [hesitation |-> -10, budget_concern |-> -15, dietary_conflict |-> -20,
     rejection |-> -25, delay_response |-> -5]

DIETARY_KEYWORDS ==
    << <<"v","e","g","a","n">>, <<"v","e","g","e","t","a","r","i","a","n">>, <<"g","l","u","t","e","n","_","f","r","e","e">>, <<"d","a","i","r","y","_","f","r","e","e">>, <<"n","u","t","_","f","r","e","e">> >>

SPICY_WORDS == << <<"s","p","i","c","y">>, <<"h","o","t">>, <<"c","h","i","l","i">>, <<"j","a","l","a","p","e">> >>

ORDER_WORDS == << <<"o","r","d","e","r">>, <<"a","d","d"," ","t","o"," ","c","a","r","t">>, <<"i","'","l","l"," ","t","a","k","e">>, <<"i"," ","w","i","l","l"," ","t","a","k","e">>, <<"b","u","y">> >>

ENTHUSIASM_WORDS == << <<"l","o","v","e">>, <<"p","e","r","f","e","c","t">>, <<"a","m","a","z","i","n","g">>, <<"d","e","l","i","c","i","o","u","s">> >>

MOODS ==
    << <<"a","d","v","e","n","t","u","r","o","u","s">>, <<"c","o","m","f","o","r","t">>, <<"h","e","a","l","t","h","y">>, <<"i","n","d","u","l","g","e","n","t">>, <<"q","u","i","c","k">>,
       <<"r","e","f","r","e","s","h","i","n","g">>, <<"c","o","z","y">>, <<"p","a","r","t","y">> >>

\* where the group of  under\s*\$?\s*(\d+(?:\.\d+)?)  starts when the pattern matches at i; 0 otherwise
UnderGroupAt(txt, i) ==
    IF i + 4 > Len(txt) \/ SubSeq(txt, i, i + 4) # <<"u","n","d","e","r">> THEN 0
    ELSE LET j1 == SkipWhile(txt, i + 5, Whitespace)
             j2 == IF j1 <= Len(txt) /\ txt[j1] = "$" THEN j1 + 1 ELSE j1
             j3 == SkipWhile(txt, j2, Whitespace)
         IN  IF NumberEnd(txt, j3) # 0 THEN j3 ELSE 0

\* where the group of  \$\s*(\d+(?:\.\d+)?)  starts when the pattern matches at i; 0 otherwise
DollarGroupAt(txt, i) ==
    IF i > Len(txt) \/ txt[i] # "$" THEN 0
    ELSE LET j1 == SkipWhile(txt, i + 1, Whitespace)
         IN  IF NumberEnd(txt, j1) # 0 THEN j1 ELSE 0

\* re.search: the group of the leftmost match of a pattern, <<>> when there is no match;
\* group[i] is where the group starts when the pattern matches at i, and 0 otherwise
SearchGroup(txt, group) ==
    LET hits == {i \in 1..Len(txt) : group[i] # 0}
    IN  IF hits = {} THEN <<>>
        ELSE LET i == CHOOSE h \in hits : \A g \in hits : h <= g
             IN  SubSeq(txt, group[i], NumberEnd(txt, group[i]) - 1)

_extract_budget(txt) ==
    LET m == SearchGroup(txt, [i \in 1..Len(txt) |-> UnderGroupAt(txt, i)])
        m2 == SearchGroup(txt, [i \in 1..Len(txt) |-> DollarGroupAt(txt, i)])
    IN  IF m # <<>> THEN PyNum(FloatOfDigits(m))
        ELSE IF m2 # <<>> THEN PyNum(FloatOfDigits(m2))
        ELSE PyNone

\* the dietary keywords found in txt, in the order of DIETARY_KEYWORDS
DietaryFound(txt) ==
    LET F[k \in 0..Len(DIETARY_KEYWORDS)] ==
            IF k = 0 THEN <<>>
            ELSE IF contains(DIETARY_KEYWORDS[k], txt)
                 THEN Append(F[k - 1], PyStr(DIETARY_KEYWORDS[k]))
                 ELSE F[k - 1]
    IN  F[Len(DIETARY_KEYWORDS)]

\* where w first occurs in txt, which holds it
PlaceOf(w, txt) ==
    CHOOSE i \in 1..Len(txt) :
        /\ i + Len(w) - 1 <= Len(txt) /\ SubSeq(txt, i, i + Len(w) - 1) = w
        /\ \A j \in 1..(i - 1) :
               j + Len(w) - 1 > Len(txt) \/ SubSeq(txt, j, j + Len(w) - 1) # w

\* the mood that comes first in the message, not in MOODS
FirstMood_ByPlace(txt) ==
    LET hits == {k \in 1..Len(MOODS) : contains(MOODS[k], txt)}
    IN  IF hits = {} THEN <<>>
        ELSE MOODS[CHOOSE k \in hits :
                      \A g \in hits : PlaceOf(MOODS[k], txt) <= PlaceOf(MOODS[g], txt)]

\* the first mood of MOODS found in txt; <<>> when there is none
FirstMood(txt) ==
    LET hits == {k \in 1..Len(MOODS) : contains(MOODS[k], txt)}
    IN  IF hits = {} THEN <<>>
        ELSE MOODS[CHOOSE k \in hits : \A g \in hits : k <= g]

\* out[k] = v when cond holds
PutIf(cond, d, k, v) == IF cond THEN Put(d, k, v) ELSE d

\* lines 19-29 of simple_nlu, on the lower-cased text
NluOfLower(txt) ==
    PutIf(FirstMood(txt) # <<>>,
      PutIf(contains(<<"?">>, txt),
        PutIf(any_in(ENTHUSIASM_WORDS, txt),
          PutIf(any_in(ORDER_WORDS, txt),
            PutIf(any_in(SPICY_WORDS, txt),
              PutIf(DietaryFound(txt) # <<>>,
                PutIf(Truthy(_extract_budget(txt)), EmptyDict,
                      "budget", _extract_budget(txt)),
                "dietary", PyList(DietaryFound(txt))),
              "spicy", PyBool(TRUE)),
            "order", PyBool(TRUE)),
          "enthusiasm", PyBool(TRUE)),
        "question", PyBool(TRUE)),
      "mood", PyStr(FirstMood(txt)))

simple_nlu(text) == NluOfLower(lower(text))

\* str(uuid.uuid4()): the k-th identifier drawn
Uuid(k) == "uuid-" \o ToString(k)

_init_context(session_id) ==
    [session_id |-> session_id, history |-> <<>>, intents |-> EmptyDict,
     accumulated_score |-> 0, seen_intents |-> {}]

\* a delta that counts the dietary weight once, whatever the number of tags
ScoreDelta_DietaryOnce(nlu) ==
      (IF "mood" \in DOMAIN nlu THEN ENGAGEMENT_FACTORS.mood_indication ELSE 0)
    + (IF "dietary" \in DOMAIN nlu THEN ENGAGEMENT_FACTORS.dietary_restrictions ELSE 0)
    + (IF "budget" \in DOMAIN nlu THEN ENGAGEMENT_FACTORS.budget_mention ELSE 0)
    + (IF "question" \in DOMAIN nlu THEN ENGAGEMENT_FACTORS.question_asking ELSE 0)
    + (IF "enthusiasm" \in DOMAIN nlu THEN ENGAGEMENT_FACTORS.enthusiasm_words ELSE 0)
    + (IF "order" \in DOMAIN nlu THEN ENGAGEMENT_FACTORS.order_intent ELSE 0)
    + (IF "spicy" \in DOMAIN nlu THEN ENGAGEMENT_FACTORS.specific_preferences ELSE 0)

\* a delta that takes the rejection factor for a question
ScoreDelta_Rejection(nlu) ==
      (IF "mood" \in DOMAIN nlu THEN ENGAGEMENT_FACTORS.mood_indication ELSE 0)
    + (IF "question" \in DOMAIN nlu THEN NEGATIVE_FACTORS.rejection ELSE 0)
    + (IF "order" \in DOMAIN nlu THEN ENGAGEMENT_FACTORS.order_intent ELSE 0)

\* lines 38-45 of update_context_and_score
ScoreDelta(nlu) ==
      (IF "mood" \in DOMAIN nlu THEN ENGAGEMENT_FACTORS.mood_indication ELSE 0)
    + (IF "dietary" \in DOMAIN nlu
       THEN ENGAGEMENT_FACTORS.dietary_restrictions
                * Len(Get(nlu, "dietary", PyList(<<>>)).l)
       ELSE 0)
    + (IF "budget" \in DOMAIN nlu THEN ENGAGEMENT_FACTORS.budget_mention ELSE 0)
    + (IF "question" \in DOMAIN nlu THEN ENGAGEMENT_FACTORS.question_asking ELSE 0)
    + (IF "enthusiasm" \in DOMAIN nlu THEN ENGAGEMENT_FACTORS.enthusiasm_words ELSE 0)
    + (IF "order" \in DOMAIN nlu THEN ENGAGEMENT_FACTORS.order_intent ELSE 0)
    + (IF "spicy" \in DOMAIN nlu THEN ENGAGEMENT_FACTORS.specific_preferences ELSE 0)

\* a turn that does not record its delta
Turn_NoDelta(text, nlu, score_delta) ==
    [role |-> "user", text |-> text, nlu |-> nlu, score_delta |-> 0]

\* the turn that line 46 appends
Turn(text, nlu, score_delta) ==
    [role |-> "user", text |-> text, nlu |-> nlu, score_delta |-> score_delta]

\* a score without the ceiling
Clamp_NoCeiling(previous, score_delta) == Max(0, previous + score_delta)

\* line 47: max(0, min(100, previous + score_delta))
Clamp(previous, score_delta) == Max(0, Min(100, previous + score_delta))

\* an update that also writes the slots into the intents of the context
Updated_WritesIntents(ctx, text, nlu, score_delta) ==
    [ctx EXCEPT !.history = Append(@, Turn(text, nlu, score_delta)),
                !.accumulated_score = Clamp(@, score_delta),
                !.intents = nlu]

\* lines 46-47 on the context
Updated(ctx, text, nlu, score_delta) ==
    [ctx EXCEPT !.history = Append(@, Turn(text, nlu, score_delta)),
                !.accumulated_score = Clamp(@, score_delta)]

\* line 48: the values returned
UpdateResult(ctx, score_delta, nlu) ==
    [context |-> ctx, score_delta |-> score_delta,
     accumulated_score |-> ctx.accumulated_score, nlu |-> nlu]

UpdateWithNlu(ctx, text, nlu) ==
    UpdateResult(Updated(ctx, text, nlu, ScoreDelta(nlu)), ScoreDelta(nlu), nlu)

\* update_context_and_score(context, text) run without interruption
update_context_and_score(context, text) ==
    UpdateWithNlu(IF context = PyNone THEN _init_context(Uuid(0)) ELSE context,
                  text, simple_nlu(text))

-----------------------------------------------------------------------------
(* json.loads, on a text of atoms: the punctuation { } [ ] , : and the quote are  *)
(* atoms of their own, a string literal runs from a quote to the next one, a      *)
(* number is a run of digit atoms with an optional fraction, true false null are  *)
(* atoms                                                                          *)

JsonWs == {" ", "\t", "\n", "\r"}

Quote == "\""

Fail == [ok |-> FALSE]

Ok(v, n) == [ok |-> TRUE, val |-> v, next |-> n]

\* the closing quote of the string literal opened at i; 0 when it is not closed
StringEnd(t, i) ==
    LET qs == {q \in (i + 1)..Len(t) : t[q] = Quote}
    IN  IF qs = {} THEN 0 ELSE CHOOSE q \in qs : \A g \in qs : q <= g

RECURSIVE ParseValue(_, _), ParseItems(_, _, _), ParseMembers(_, _, _)

ParseValue(t, i0) ==
    LET i == SkipWhile(t, i0, JsonWs)
    IN  IF i > Len(t) THEN Fail
        ELSE CASE t[i] = Quote ->
                    IF StringEnd(t, i) = 0 THEN Fail
                    ELSE Ok(PyStr(SubSeq(t, i + 1, StringEnd(t, i) - 1)), StringEnd(t, i) + 1)
               [] t[i] \in DigitSet ->
                    Ok(PyNum(FloatOfDigits(SubSeq(t, i, NumberEnd(t, i) - 1))), NumberEnd(t, i))
               [] t[i] = "true" -> Ok(PyBool(TRUE), i + 1)
               [] t[i] = "false" -> Ok(PyBool(FALSE), i + 1)
               [] t[i] = "null" -> Ok(PyNone, i + 1)
               [] t[i] = "[" ->
                    LET j == SkipWhile(t, i + 1, JsonWs)
                    IN  IF j <= Len(t) /\ t[j] = "]" THEN Ok(PyList(<<>>), j + 1)
                        ELSE ParseItems(t, i + 1, <<>>)
               [] t[i] = "{" ->
                    LET j == SkipWhile(t, i + 1, JsonWs)
                    IN  IF j <= Len(t) /\ t[j] = "}" THEN Ok(PyDict(EmptyDict), j + 1)
                        ELSE ParseMembers(t, i + 1, EmptyDict)
               [] OTHER -> Fail

\* the items of a list after its [ or after a comma
ParseItems(t, i, acc) ==
    LET r == ParseValue(t, i)
        j == SkipWhile(t, r.next, JsonWs)
    IN  IF ~r.ok THEN Fail
        ELSE IF j > Len(t) THEN Fail
        ELSE IF t[j] = "," THEN ParseItems(t, j + 1, Append(acc, r.val))
        ELSE IF t[j] = "]" THEN Ok(PyList(Append(acc, r.val)), j + 1)
        ELSE Fail

\* the members of an object after its { or after a comma
ParseMembers(t, i0, acc) ==
    LET i == SkipWhile(t, i0, JsonWs)
        q == StringEnd(t, i)
        c == SkipWhile(t, q + 1, JsonWs)
        r == ParseValue(t, c + 1)
        j == SkipWhile(t, r.next, JsonWs)
        d == Put(acc, SubSeq(t, i + 1, q - 1), r.val)
    IN  IF i > Len(t) \/ t[i] # Quote THEN Fail
        ELSE IF q = 0 THEN Fail
        ELSE IF c > Len(t) \/ t[c] # ":" THEN Fail
        ELSE IF ~r.ok THEN Fail
        ELSE IF j > Len(t) THEN Fail
        ELSE IF t[j] = "," THEN ParseMembers(t, j + 1, d)
        ELSE IF t[j] = "}" THEN Ok(PyDict(d), j + 1)
        ELSE Fail

\* json.loads(text): ok is FALSE where it raises JSONDecodeError
json_loads(t) ==
    LET r == ParseValue(t, 1)
    IN  IF r.ok /\ SkipWhile(t, r.next, JsonWs) = Len(t) + 1
        THEN [ok |-> TRUE, val |-> r.val]
        ELSE Fail

-----------------------------------------------------------------------------
(* convo_llm.py *)

\* a text or PyNone is falsy when it is None or empty
NoText(text) == text = PyNone \/ text.s = <<>>

_extract_json(text) ==
    IF NoText(text) \/ ~contains(<<"{">>, text.s) THEN PyNone
    ELSE LET s == text.s
             start == CHOOSE i \in 1..Len(s) : s[i] = "{" /\ \A k \in 1..(i - 1) : s[k] # "{"
             ends == {i \in 1..Len(s) : s[i] = "}"}
             end == IF ends = {} THEN 0 ELSE CHOOSE i \in ends : \A k \in ends : k <= i
         IN  IF end > start THEN PyStr(SubSeq(s, start, end)) ELSE PyNone

RECURSIVE StripTrailingCommas(_, _)
\* re.sub(r",\s*([}\]])", r"\1", s), from place i on
StripTrailingCommas(s, i) ==
    IF i > Len(s) THEN <<>>
    ELSE LET k == SkipWhile(s, i + 1, Whitespace)
         IN  IF s[i] = "," /\ k <= Len(s) /\ s[k] \in {"}", "]"}
             THEN <<s[k]>> \o StripTrailingCommas(s, k + 1)
             ELSE <<s[i]>> \o StripTrailingCommas(s, i + 1)

_clean_json_string(s) ==
    LET s1 == StripTrailingCommas(s, 1)
        s2 == [i \in 1..Len(s1) |-> IF s1[i] = "nbsp" THEN " " ELSE s1[i]]
    IN  strip(s2)

_safe_parse_json(text) ==
    IF NoText(text) THEN PyDict(EmptyDict)
    ELSE IF json_loads(text.s).ok THEN json_loads(text.s).val
    ELSE IF json_loads(_clean_json_string(text.s)).ok
         THEN json_loads(_clean_json_string(text.s)).val
    ELSE PyDict(EmptyDict)

\* message.replace('"', '\\"')
EscapeQuotes(s) ==
    LET F[i \in 0..Len(s)] ==
            IF i = 0 THEN <<>>
            ELSE IF s[i] = Quote THEN F[i - 1] \o <<"\\", Quote>>
            ELSE Append(F[i - 1], s[i])
    IN  F[Len(s)]

\* the outcome of a call that may raise
Raised == [raised |-> TRUE]

Returned(v) == [raised |-> FALSE, val |-> v]

\* _call_groq(prompt): the service is not configured or fails (it raises), or it
\* answers with a content, which is a text or None
_call_groq(svc) ==
    IF svc.kind = "raise" THEN Raised ELSE Returned(svc.out)

\* float(s) of a str; it raises ValueError unless the stripped text is a number
FloatOfStr(s) ==
    LET x == strip(s)
    IN  IF x # <<>> /\ NumberEnd(x, 1) = Len(x) + 1 THEN Returned(PyNum(FloatOfDigits(x)))
        ELSE Raised

\* re.search(r"(\d+(\.\d+)?)", v)
FirstNumber(s) ==
    LET hits == {i \in 1..Len(s) : NumberEnd(s, i) # 0}
    IN  IF hits = {} THEN <<>>
        ELSE LET i == CHOOSE h \in hits : \A g \in hits : h <= g
             IN  SubSeq(s, i, NumberEnd(s, i) - 1)

_to_float(v) ==
    CASE v.t = "none" -> PyNone
      [] v.t = "num"  -> v
      [] v.t = "bool" -> PyNum(IF v.b THEN 100 ELSE 0)
      [] v.t = "str"  ->
            IF ~FloatOfStr(v.s).raised THEN FloatOfStr(v.s).val
            ELSE IF FirstNumber(v.s) # <<>> THEN PyNum(FloatOfDigits(FirstNumber(v.s)))
            ELSE PyNone
      [] OTHER -> PyNone

\* where the group of  \$(\d+)  starts when the pattern matches at i; 0 otherwise
DollarDigitsAt(txt, i) ==
    IF i > Len(txt) \/ txt[i] # "$" THEN 0
    ELSE IF DigitsEnd(txt, i + 1) # 0 THEN i + 1 ELSE 0

\* re.search(r"\$(\d+)", txt).group(1); <<>> when there is no match
DollarDigits(txt) ==
    LET hits == {i \in 1..Len(txt) : DollarDigitsAt(txt, i) # 0}
    IN  IF hits = {} THEN <<>>
        ELSE LET i == CHOOSE h \in hits : \A g \in hits : h <= g
             IN  SubSeq(txt, i + 1, DigitsEnd(txt, i + 1) - 1)

_fallback_nlu(message) ==
    LET txt == lower(message)
    IN  [mood |-> PyNone,
         budget |-> IF DollarDigits(txt) # <<>> THEN _to_float(PyStr(DollarDigits(txt)))
                    ELSE PyNone,
         dietary |-> IF contains(<<"v","e","g","e","t","a","r","i","a","n">>, txt) THEN PyList(<<PyStr(<<"v","e","g","e","t","a","r","i","a","n">>)>>)
                     ELSE PyList(<<>>),
         nutrient |-> IF contains(<<"p","r","o","t","e","i","n">>, txt) THEN PyStr(<<"p","r","o","t","e","i","n">>) ELSE PyNone,
         spicy |-> PyBool(contains(<<"s","p","i","c","y">>, txt)),
         question |-> PyBool(contains(<<"?">>, txt) \/ contains(<<"h","o","w">>, txt)),
         order |-> PyBool(any_in(<< <<"o","r","d","e","r">>, <<"a","d","d">>, <<"b","u","y">>, <<"t","a","k","e">> >>, txt)),
         enthusiasm |-> PyBool(any_in(<< <<"l","o","v","e">>, <<"p","e","r","f","e","c","t">>, <<"a","m","a","z","i","n","g">> >>, txt)),
         free_text |-> PyStr(message)]

\* the dict that lines 117-127 build from a parsed object
NluFromParsed(d, message) ==
    [mood |-> Get(d, <<"mood">>, PyNone),
     budget |-> _to_float(Get(d, <<"budget">>, PyNone)),
     dietary |-> PyOr(Get(d, <<"dietary">>, PyNone), PyList(<<>>)),
     nutrient |-> Get(d, <<"nutrient">>, PyNone),
     spicy |-> PyBool(Truthy(Get(d, <<"spicy">>, PyNone))),
     question |-> PyBool(Truthy(Get(d, <<"question">>, PyNone))),
     order |-> PyBool(Truthy(Get(d, <<"order">>, PyNone))),
     enthusiasm |-> PyBool(Truthy(Get(d, <<"enthusiasm">>, PyNone))),
     free_text |-> PyOr(Get(d, <<"free_text">>, PyNone), PyStr(message))]

\* the try block of parse_nlu_with_llm: parsed.get raises on anything but a dict
ParseNluTry(message, svc) ==
    LET out == _call_groq(svc)
        jtxt == PyOr(_extract_json(out.val), out.val)
        parsed == _safe_parse_json(jtxt)
    IN  IF out.raised THEN Raised
        ELSE IF parsed.t # "dict" THEN Raised
        ELSE Returned(NluFromParsed(parsed.d, message))

\* the except clause of parse_nlu_with_llm
NluExcept(attempt, message) ==
    IF attempt.raised THEN Returned(_fallback_nlu(message)) ELSE attempt

parse_nlu_with_llm(message, svc) == NluExcept(ParseNluTry(message, svc), message)

\* lines 134-143: the projection of the first four products
\* a projection that keeps every field
SafeProduct_Whole(p) == p

SafeProduct(p) ==
    [product_id |-> Get(p, "product_id", PyNone),
     name |-> Get(p, "name", PyNone),
     price |-> Get(p, "price", PyNone),
     spice_level |-> Get(p, "spice_level", PyNone),
     popularity_score |-> Get(p, "popularity_score", PyNone)]

safe_products(products) ==
    [i \in 1..Min(4, Len(products)) |-> SafeProduct(products[i])]

\* _safe_json(context): the sets of the context as lists (seen_intents is never filled)
_safe_json(context) ==
    IF "seen_intents" \in DOMAIN context
    THEN [context EXCEPT !.seen_intents = <<>>]
    ELSE context

\* what REPLY_PROMPT.format embeds
ReplyPrompt(context, user_message, products, interest_score) ==
    [context |-> _safe_json(context), message |-> EscapeQuotes(user_message),
     products |-> safe_products(products), score |-> interest_score]

RECURSIVE DigitsOf(_)
\* the decimal digits of a natural number
DigitsOf(n) ==
    IF n < 10 THEN <<DigitChars[n + 1]>>
    ELSE Append(DigitsOf(n \div 10), DigitChars[(n % 10) + 1])

\* f"{x:.2f}" of a float in hundredths
Format2f(h) ==
    DigitsOf(h \div 100) \o <<".", DigitChars[((h % 100) \div 10) + 1], DigitChars[(h % 10) + 1]>>

\* str(v) inside an f-string
StrOf(v) == IF v.t = "str" THEN v.s ELSE <<"None">>

\* a fallback that ignores the candidates
_fallback_reply_Generic(context, user_message, products, interest_score) ==
    [reply |-> PyStr(<<"Tell me your food mood or budget!">>),
     suggested |-> PyList(<<>>),
     mention_spice |-> PyBool(FALSE),
     debug |-> PyStr(<<"fallback_none">>)]

_fallback_reply(context, user_message, products, interest_score) ==
    IF products # <<>>
    THEN LET best == products[1]
         IN  [reply |-> PyStr(<<"I found ">> \o StrOf(best.name) \o <<" for $">>
                              \o Format2f(PyOr(best.price, PyNum(0)).n)
                              \o <<". Want me to add it?">>),
              suggested |-> PyList(<<best.product_id>>),
              mention_spice |-> PyBool(Truthy(best.spice_level)),
              debug |-> PyStr(<<"fallback">>)]
    ELSE [reply |-> PyStr(<<"Tell me your food mood or budget!">>),
          suggested |-> PyList(<<>>),
          mention_spice |-> PyBool(FALSE),
          debug |-> PyStr(<<"fallback_none">>)]

\* an unparsed answer treated as a failure of the call
WrappedText_Raises(out) == Raised

\* the raw text wrapped as it came
WrappedText_Verbatim(out) ==
    IF out.t # "str" THEN Raised
    ELSE Returned([reply |-> out,
                   suggested |-> PyList(<<>>),
                   mention_spice |-> PyBool(FALSE),
                   debug |-> PyStr(<<"wrapped_text">>)])

\* lines 155-161: the raw text wrapped as the reply; out.strip() raises when out is None
WrappedText(out) ==
    IF out.t # "str" THEN Raised
    ELSE Returned([reply |-> PyStr(strip(out.s)),
                   suggested |-> PyList(<<>>),
                   mention_spice |-> PyBool(FALSE),
                   debug |-> PyStr(<<"wrapped_text">>)])

\* lines 163-168: parsed.get raises on anything but a dict, .strip() on anything but a str
ReplyFromParsed(parsed) ==
    IF parsed.t # "dict" THEN Raised
    ELSE IF Get(parsed.d, <<"reply">>, PyStr(<<>>)).t # "str" THEN Raised
    ELSE Returned([reply |-> PyStr(strip(Get(parsed.d, <<"reply">>, PyStr(<<>>)).s)),
                   suggested |-> PyOr(Get(parsed.d, <<"suggested">>, PyNone), PyList(<<>>)),
                   mention_spice |->
                       PyBool(Truthy(Get(parsed.d, <<"mention_spice">>, PyBool(FALSE)))),
                   debug |-> Get(parsed.d, <<"debug">>, PyStr(<<"groq">>))])

\* the try block of generate_reply_with_llm
GenerateReplyTry(context, user_message, products, interest_score, svc) ==
    LET out == _call_groq(svc)
        jtxt == PyOr(_extract_json(out.val), out.val)
        parsed == _safe_parse_json(jtxt)
    IN  IF out.raised THEN Raised
        ELSE IF ~Truthy(parsed) THEN WrappedText(out.val)
        ELSE ReplyFromParsed(parsed)

\* an except clause that lets the exception through
ReplyExcept_Reraise(attempt, context, user_message, products, interest_score) == attempt

\* the except clause of generate_reply_with_llm
ReplyExcept(attempt, context, user_message, products, interest_score) ==
    IF attempt.raised
    THEN Returned(_fallback_reply(context, user_message, safe_products(products),
                                  interest_score))
    ELSE attempt

generate_reply_with_llm(context, user_message, products, interest_score, svc) ==
    ReplyExcept(GenerateReplyTry(context, user_message, products, interest_score, svc),
                context, user_message, products, interest_score)

-----------------------------------------------------------------------------
(* recommender.py.  A row of the products table is a dict of its columns; the tag *)
(* columns hold JSON text, modelled by the list it was dumped from.  A score is   *)
(* kept times 500, which makes 0.2 * price an integer.                            *)

\* json.dumps of a list of str: ["a", "b"]
JsonDumpsList(tags) ==
    LET F[k \in 0..Len(tags)] ==
            IF k = 0 THEN <<>>
            ELSE (IF k = 1 THEN <<>> ELSE F[k - 1] \o <<",", " ">>)
                     \o <<Quote>> \o tags[k].s \o <<Quote>>
    IN  <<"[">> \o F[Len(tags)] \o <<"]">>

\* SQLite's column LIKE '%pat%': the case of ASCII letters is ignored and _ in the
\* pattern stands for any one character
Like(text, pat) ==
    \E i \in 1..(Len(text) - Len(pat) + 1) :
        \A k \in 1..Len(pat) :
            pat[k] = "_" \/ lower(<<pat[k]>>) = lower(<<text[i + k - 1]>>)

\* the items of `for d in dietary`: a list gives its items, a str its characters,
\* a number or a bool raises TypeError
IterItems(v) ==
    CASE v.t = "list" -> Returned(v.l)
      [] v.t = "str"  -> Returned([i \in 1..Len(v.s) |-> PyStr(<<v.s[i]>>)])
      [] OTHER -> Raised

\* the WHERE clauses of lines 18-26, on one row
RowMatches(row, mood, budget, dietary, nutrient) ==
    /\ Truthy(mood) =>
          row.mood_tags # PyNone /\ Like(JsonDumpsList(row.mood_tags.l), StrOf(mood))
    /\ budget # PyNone => row.price # PyNone /\ row.price.n <= budget.n
    /\ Truthy(dietary) =>
          \A k \in 1..Len(IterItems(dietary).val) :
              /\ row.dietary_tags # PyNone
              /\ Like(JsonDumpsList(row.dietary_tags.l), StrOf(IterItems(dietary).val[k]))
    /\ Truthy(nutrient) =>
          /\ nutrient = PyStr(<<"p","r","o","t","e","i","n">>) =>
                row.calories # PyNone /\ row.calories.n >= 30000
          /\ nutrient = PyStr(<<"l","o","w","_","c","a","r","b">>) =>
                row.calories # PyNone /\ row.calories.n <= 40000
          /\ nutrient = PyStr(<<"l","o","w","_","c","a","l","o","r","i","e">>) =>
                row.calories # PyNone /\ row.calories.n <= 25000

\* SELECT ... LIMIT n: the first n rows, in table order, of those that match;
\* matches[k] says whether row k satisfies the WHERE clauses
SelectWhere(rows, matches, n) ==
    LET F[k \in 0..Len(rows)] ==
            IF k = 0 THEN <<>>
            ELSE IF matches[k] /\ Len(F[k - 1]) < n THEN Append(F[k - 1], rows[k])
            ELSE F[k - 1]
    IN  F[Len(rows)]

\* x in tags, for a list of tags
InList(x, tags) == tags.t = "list" /\ \E k \in 1..Len(tags.l) : tags.l[k] = x

\* score(item) of lines 29-42, times 500
Score500(item, mood, dietary, nutrient) ==
      5 * item.popularity_score.n
    + (IF Truthy(mood) /\ InList(mood, PyOr(item.mood_tags, PyList(<<>>))) THEN 12500 ELSE 0)
    + (IF Truthy(dietary)
       THEN 6000 * Cardinality({k \in 1..Len(IterItems(dietary).val) :
                                   InList(IterItems(dietary).val[k],
                                          PyOr(item.dietary_tags, PyList(<<>>)))})
       ELSE 0)
    + (IF nutrient = PyStr(<<"p","r","o","t","e","i","n">>) /\ item.calories # PyNone
                                       /\ item.calories.n >= 30000
       THEN 5000 ELSE 0)
    - item.price.n

RECURSIVE OrderDesc_TiesLast(_, _)
\* a descending order in which, of equal keys, the later place comes first
OrderDesc_TiesLast(keys, left) ==
    IF left = {} THEN <<>>
    ELSE LET best == CHOOSE i \in left :
                        \A j \in left : keys[j] < keys[i] \/ (keys[j] = keys[i] /\ i >= j)
         IN  <<best>> \o OrderDesc_TiesLast(keys, left \ {best})

RECURSIVE OrderDesc(_, _)
\* the places of `left` by decreasing key, equal keys by increasing place
OrderDesc(keys, left) ==
    IF left = {} THEN <<>>
    ELSE LET best == CHOOSE i \in left :
                        \A j \in left : keys[j] < keys[i] \/ (keys[j] = keys[i] /\ i <= j)
         IN  <<best>> \o OrderDesc(keys, left \ {best})

\* sorted(rows, key=score, reverse=True), keys[i] the score of row i: equal keys keep
\* their order
SortedDesc(rows, keys) ==
    LET ord == OrderDesc(keys, 1..Len(rows))
    IN  [k \in 1..Len(rows) |-> rows[ord[k]]]

\* seq[:n]
SliceTo(seq, n) ==
    IF n >= 0 THEN SubSeq(seq, 1, Min(n, Len(seq)))
    ELSE SubSeq(seq, 1, Max(0, Len(seq) + n))

\* recommend_by_preferences; db.ok is FALSE when the database cannot be read
recommend_by_preferences(mood, budget, dietary, nutrient, limit, db) ==
    LET rows == SelectWhere(db.rows,
                            [k \in 1..Len(db.rows) |->
                                RowMatches(db.rows[k], mood, budget, dietary, nutrient)],
                            200)
        keys == [i \in 1..Len(rows) |-> Score500(rows[i], mood, dietary, nutrient)]
    IN  IF Truthy(dietary) /\ IterItems(dietary).raised THEN Raised
        ELSE IF ~db.ok THEN Raised
        ELSE Returned(SliceTo(SortedDesc(rows, keys), limit))


\* SQLite's LIMIT n: a negative n is no limit
SqlLimit(rows, n) ==
    IF n < 0 THEN rows ELSE SubSeq(rows, 1, Min(n, Len(rows)))

\* the places of the rows with product_id = ?, in table order; NULL equals nothing
PlacesOfId(rows, product_id) ==
    {k \in 1..Len(rows) : rows[k].product_id # PyNone /\ rows[k].product_id = product_id}

\* SELECT * FROM products WHERE category=? AND product_id<>? ORDER BY
\* popularity_score DESC: rows of equal popularity come in table order
SameCategory(rows, category, product_id) ==
    LET found == SelectWhere(rows,
                             [k \in 1..Len(rows) |->
                                 /\ category # PyNone /\ rows[k].category # PyNone
                                 /\ rows[k].category = category
                                 /\ rows[k].product_id # PyNone
                                 /\ rows[k].product_id # product_id],
                             Len(rows))
    IN  SortedDesc(found, [i \in 1..Len(found) |-> found[i].popularity_score.n])

\* collaborative_recommend; cur.fetchone() is the first row with the id
collaborative_recommend(product_id, limit, db) ==
    IF ~db.ok THEN Raised
    ELSE IF PlacesOfId(db.rows, product_id) = {} THEN Returned(<<>>)
    ELSE Returned(SqlLimit(
             SameCategory(db.rows,
                          db.rows[CHOOSE k \in PlacesOfId(db.rows, product_id) :
                                     \A j \in PlacesOfId(db.rows, product_id) : k <= j].category,
                          product_id),
             limit))
-----------------------------------------------------------------------------
(* app.py: the stages of chat().  `fault` says that the call of the stage raised *)
(* and the stage's except clause ran.                                            *)

\* line 82: req.session_id or str(uuid.uuid4()); r numbers the request
SidOf(session_id, r) == IF session_id = "" THEN Uuid(r) ELSE session_id

\* stage 1, lines 87-92
ChatNlu(message, svc, fault) ==
    IF fault THEN [free_text |-> PyStr(message)]
    ELSE parse_nlu_with_llm(message, svc).val

\* an except clause of stage 2 that reports a score of 0
ScoreExcept_Zero(context) == [delta |-> 0, total_score |-> 0]

\* the except clause of stage 2, lines 98-100: delta 0 and the score of the context
ScoreExcept(context) == [delta |-> 0, total_score |-> context.accumulated_score]

\* the except clause of stage 3, lines 112-114: no products when the ranking raised
RankExcept(outcome) == IF outcome.raised THEN <<>> ELSE outcome.val

\* stage 3, lines 103-114
ChatProducts(nlu_slots, db) ==
    RankExcept(recommend_by_preferences(Get(nlu_slots, "mood", PyNone),
                                        Get(nlu_slots, "budget", PyNone),
                                        Get(nlu_slots, "dietary", PyNone),
                                        Get(nlu_slots, "nutrient", PyNone), 6, db))

\* the except clause of stage 4, lines 122-126
ChatFallbackReply(products) ==
    IF products # <<>>
    THEN LET p == products[1]
         IN  [reply |-> PyStr(<<"I found ">> \o StrOf(Get(p, "name", PyNone)) \o <<" for $">>
                              \o Format2f(PyOr(Get(p, "price", PyNone), PyNum(0)).n)
                              \o <<". Want details?">>),
              suggested |-> PyList(<<Get(p, "product_id", PyNone)>>),
              mention_spice |-> PyBool(Truthy(Get(p, "spice_level", PyNone))),
              debug |-> PyStr(<<"fallback">>)]
    ELSE [reply |-> PyStr(<<"Tell me more about your mood, budget, or dietary needs.">>),
          suggested |-> PyList(<<>>),
          mention_spice |-> PyBool(FALSE),
          debug |-> PyStr(<<"fallback_none">>)]

\* stage 4, lines 117-126
ChatReply(context, message, products, total_score, svc, fault) ==
    IF fault THEN ChatFallbackReply(products)
    ELSE generate_reply_with_llm(context, message, SliceTo(products, 4), total_score, svc).val

\* line 130: the number of user turns of the history
TurnNum(context) ==
    Cardinality({i \in 1..Len(context.history) : context.history[i].role = "user"})

\* the row that log_turn inserts, lines 131-140
LogRow(sid, context, message, reply_obj, total_score, products) ==
    [session_id |-> sid, turn |-> TurnNum(context), user_message |-> message,
     bot_reply |-> reply_obj.reply, interest_score |-> total_score,
     intents |-> context.intents,
     recommended |-> [i \in 1..Min(6, Len(products)) |-> Get(products[i], "product_id", PyNone)]]

\* lines 144-152
Response(sid, reply_obj, total_score, delta, nlu_slots) ==
    [session_id |-> sid, reply |-> reply_obj.reply, interest_score |-> total_score,
     score_delta |-> delta, nlu_slots |-> nlu_slots, suggested |-> reply_obj.suggested,
     debug |-> reply_obj.debug]

-----------------------------------------------------------------------------
(* Bounds and inputs *)

\* chat requests served, each by its own worker thread
NumReqs == 2

\* calls of update_context_and_score made on one context
MaxTurns == 3

\* chat requests served one after the other
MaxChats == 2

Reqs == 1..NumReqs

\* a context object is created by a request at most once: its reference is the request's number
ObjIds == 1..Max(NumReqs, MaxChats)

\* session ids that clients send; "" stands for a request without one
Sids == {"s1"}

SessionInputs == Sids \cup {""}

AllSids == Sids \cup {Uuid(r) : r \in ObjIds}

\* user messages of the stateful specifications
ChatMsgs ==
    { <<"c","o","m","f","o","r","t","?">>,
      <<"v","e","g","a","n"," ","g","l","u","t","e","n","_","f","r","e","e"," ","n","u","t","_","f","r","e","e">>,
      <<"I"," ","w","a","n","t"," ","s","o","m","e","t","h","i","n","g"," ","s","p","i","c","y"," ","u","n","d","e","r"," ","$","1","0">>,
      <<"l","o","v","e"," ","i","t",","," ","i","'","l","l"," ","t","a","k","e"," ","t","h","e"," ","c","o","z","y"," ","o","n","e">>,
      <<"$","0">>,
      <<"h","e","l","l","o">> }

\* phrases a user message is made of
MaxWords == 2

Phrases ==
    { <<"c","o","z","y">>, <<"A","d","v","e","n","t","u","r","o","u","s">>, <<"c","o","m","f","o","r","t","?">>, <<"v","e","g","a","n">>, <<"v","e","g","e","t","a","r","i","a","n">>,
      <<"u","n","d","e","r"," ","8">>, <<"$","1","2",".","5","0">>, <<"h","o","t">>, <<"i","'","l","l"," ","t","a","k","e"," ","i","t">>, <<"h","o","w"," ","l","o","v","e","l","y">> }

\* the phrases of ws joined by single spaces
JoinWords(ws) ==
    LET F[k \in 0..Len(ws)] ==
            IF k = 0 THEN <<>>
            ELSE IF k = 1 THEN ws[1]
            ELSE F[k - 1] \o <<" ">> \o ws[k]
    IN  F[Len(ws)]

\* user messages of the specifications of one call
Msgs == {JoinWords(ws) : ws \in UNION {[1..n -> Phrases] : n \in 0..MaxWords}}

\* JSON text: a string literal of one atom, a member, an object, a list
S(w) == <<Quote, w, Quote>>

\* a string literal of several atoms
Str(s) == <<Quote>> \o s \o <<Quote>>

KV(k, v) == S(k) \o <<":", " ">> \o v

JoinComma(parts) ==
    LET F[k \in 0..Len(parts)] ==
            IF k = 0 THEN <<>>
            ELSE IF k = 1 THEN parts[1]
            ELSE F[k - 1] \o <<",", " ">> \o parts[k]
    IN  F[Len(parts)]

Obj(members) == <<"{">> \o JoinComma(members) \o <<"}">>

Lst(items) == <<"[">> \o JoinComma(items) \o <<"]">>

\* answers of the service to the reply prompt
ReplyTexts ==
    { <<>>,
      <<" ", "Try", " ", "the", " ", "rice", "!", "\n">>,
      <<"Sure", ":", " ">>
          \o Obj(<< KV("reply", <<Quote, " ", "Try", " ", "R001", " ", Quote>>),
                    KV("suggested", Lst(<<S("R001")>>)),
                    KV("mention_spice", <<"true">>),
                    KV("debug", S("top")) >>)
          \o <<" ", "ok">>,
      <<"{">> \o KV("reply", S("hi")) \o <<",">>
          \o KV("suggested", <<"[">> \o S("R001") \o <<",">> \o S("R002")
                                \o <<",", "nbsp", "]">>)
          \o <<",", " ", "}">>,
      Obj(<< KV("reply", S("hi")), KV("suggested", Lst(<<S("X999")>>)) >>),
      Obj(<< KV("reply", S("hi")),
             KV("suggested", Lst(<<S("R001"), S("R002"), S("R003"), S("R004")>>)) >>),
      Obj(<< KV("reply", S("hi")), KV("suggested", S("R001")) >>),
      Obj(<< KV("reply", S("hi")) >>),
      Obj(<< KV("reply", <<"5">>) >>),
      Lst(<<S("R001")>>),
      <<"null">>,
      <<"{", "}">>,
      <<"{", "oops", "}">> }

\* answers of the service to the intent prompt
NluTexts ==
    { <<>>,
      <<"sorry", ",", " ", "no", " ", "json">>,
      <<"Here", ":", "\n">>
          \o Obj(<< KV("mood", Str(<<"c","o","z","y">>)), KV("budget", <<"1", "0">>),
                    KV("dietary", Lst(<<Str(<<"v","e","g","a","n">>)>>)), KV("nutrient", <<"null">>),
                    KV("spicy", <<"true">>), KV("question", <<"false">>),
                    KV("order", <<"false">>), KV("enthusiasm", <<"false">>),
                    KV("free_text", S("x")) >>),
      Obj(<< KV("budget", <<Quote, "under", " ", "$", "1", "2", ".", "5", "0", Quote>>),
             KV("dietary", Str(<<"v","e","g","a","n">>)) >>),
      <<"{">> \o KV("mood", Str(<<"p","a","r","t","y">>)) \o <<",", "}">>,
      <<"{", "mood", ":", " ", "cozy", "}">>,
      <<"null">>,
      Lst(<<S("cozy")>>) }

\* what a call of the service does
Services(texts) ==
    {[kind |-> "raise"], [kind |-> "text", out |-> PyNone]}
        \cup {[kind |-> "text", out |-> PyStr(t)] : t \in texts}

Tags(ts) == PyList([i \in 1..Len(ts) |-> PyStr(ts[i])])

\* rows of the products table as admin_create_product writes them
Catalog ==
    << [product_id |-> PyStr(<<"R001">>), name |-> PyStr(<<"Chicken Fried Rice">>),
        category |-> PyStr(<<"rice">>), description |-> PyStr(<<"Classic fried rice">>),
        price |-> PyNum(899), calories |-> PyNum(52000),
        dietary_tags |-> Tags(<<>>), mood_tags |-> Tags(<< <<"c","o","m","f","o","r","t">>, <<"q","u","i","c","k">> >>),
        popularity_score |-> PyNum(8500), spice_level |-> PyNum(300)],
       [product_id |-> PyStr(<<"R002">>), name |-> PyStr(<<"Veggie Bowl">>),
        category |-> PyStr(<<"bowl">>), description |-> PyStr(<<"Greens">>),
        price |-> PyNum(650), calories |-> PyNum(24000),
        dietary_tags |-> Tags(<< <<"v","e","g","a","n">>, <<"g","l","u","t","e","n","_","f","r","e","e">> >>),
        mood_tags |-> Tags(<< <<"h","e","a","l","t","h","y">>, <<"c","o","z","y">> >>),
        popularity_score |-> PyNum(7000), spice_level |-> PyNum(0)],
       [product_id |-> PyStr(<<"R003">>), name |-> PyStr(<<"Water">>),
        category |-> PyStr(<<"drink">>), description |-> PyNone,
        price |-> PyNum(0), calories |-> PyNone,
        dietary_tags |-> Tags(<< <<"v","e","g","a","n">> >>), mood_tags |-> Tags(<< <<"r","e","f","r","e","s","h","i","n","g">> >>),
        popularity_score |-> PyNum(5000), spice_level |-> PyNum(0)],
       [product_id |-> PyStr(<<"R004">>), name |-> PyStr(<<"Chili Wings">>),
        category |-> PyStr(<<"wings">>), description |-> PyStr(<<"Hot">>),
        price |-> PyNum(1200), calories |-> PyNum(61000),
        dietary_tags |-> Tags(<< <<"g","l","u","t","e","n"," ","f","r","e","e">> >>),
        mood_tags |-> Tags(<< <<"a","d","v","e","n","t","u","r","o","u","s">>, <<"p","a","r","t","y">> >>),
        popularity_score |-> PyNum(9000), spice_level |-> PyNum(500)],
       [product_id |-> PyStr(<<"R005">>), name |-> PyStr(<<"Plain Rice">>),
        category |-> PyStr(<<"rice">>), description |-> PyStr(<<"Steamed">>),
        price |-> PyNum(300), calories |-> PyNum(30000),
        dietary_tags |-> Tags(<< <<"v","e","g","a","n">>, <<"v","e","g","e","t","a","r","i","a","n">> >>),
        mood_tags |-> Tags(<< <<"c","o","m","f","o","r","t">> >>),
        popularity_score |-> PyNum(4000), spice_level |-> PyNum(0)] >>

\* the product of test.py, a dict without the other columns, and one with NULLs
TestProducts ==
    << [product_id |-> PyStr(<<"R001">>), name |-> PyStr(<<"Chicken Fried Rice">>),
        price |-> PyNum(899), description |-> PyStr(<<"Classic fried rice">>),
        spice_level |-> PyNum(300), popularity_score |-> PyNum(8500)],
       [product_id |-> PyStr(<<"R009">>), name |-> PyNone, price |-> PyNone,
        spice_level |-> PyNone] >>

\* length of the candidate lists handed to generate_reply_with_llm, beside the whole catalog
MaxCands == 2

\* lists of distinct products
CandLists ==
    {Catalog, TestProducts} \cup
    UNION {{[i \in 1..n |-> Catalog[f[i]]] :
                f \in {g \in [1..n -> 1..Len(Catalog)] :
                          \A a, b \in 1..n : a # b => g[a] # g[b]}} :
           n \in 0..MaxCands}



\* a table whose first two rows, and whose last two rows, have equal scores, and
\* where an id exists twice in no row
TieCatalog ==
    << [product_id |-> PyStr(<<"T001">>), name |-> PyStr(<<"Dal">>),
        category |-> PyStr(<<"curry">>), description |-> PyNone,
        price |-> PyNum(500), calories |-> PyNum(35000),
        dietary_tags |-> Tags(<< <<"v","e","g","a","n">> >>), mood_tags |-> Tags(<< <<"c","o","z","y">> >>),
        popularity_score |-> PyNum(5000), spice_level |-> PyNum(100)],
       [product_id |-> PyStr(<<"T002">>), name |-> PyStr(<<"Korma">>),
        category |-> PyStr(<<"curry">>), description |-> PyNone,
        price |-> PyNum(1000), calories |-> PyNum(35000),
        dietary_tags |-> Tags(<< <<"v","e","g","a","n">> >>), mood_tags |-> Tags(<< <<"c","o","z","y">> >>),
        popularity_score |-> PyNum(5100), spice_level |-> PyNum(200)],
       [product_id |-> PyStr(<<"T003">>), name |-> PyStr(<<"Naan">>),
        category |-> PyNone, description |-> PyNone,
        price |-> PyNum(200), calories |-> PyNum(26000),
        dietary_tags |-> PyNone, mood_tags |-> PyNone,
        popularity_score |-> PyNum(6000), spice_level |-> PyNum(0)],
       [product_id |-> PyStr(<<"T004">>), name |-> PyStr(<<"Vindaloo">>),
        category |-> PyStr(<<"curry">>), description |-> PyNone,
        price |-> PyNum(1000), calories |-> PyNum(50000),
        dietary_tags |-> Tags(<<>>), mood_tags |-> Tags(<< <<"C","o","z","y">>, <<"a","d","v","e","n","t","u","r","o","u","s">> >>),
        popularity_score |-> PyNum(7000), spice_level |-> PyNum(500)],
       [product_id |-> PyStr(<<"T005">>), name |-> PyStr(<<"Madras">>),
        category |-> PyStr(<<"curry">>), description |-> PyNone,
        price |-> PyNum(1000), calories |-> PyNum(50000),
        dietary_tags |-> Tags(<< <<"v","e","g","a","n","_","o","p","t","i","o","n">> >>),
        mood_tags |-> Tags(<< <<"a","d","v","e","n","t","u","r","o","u","s">> >>),
        popularity_score |-> PyNum(7000), spice_level |-> PyNum(400)] >>

Reverse(seq) == [k \in 1..Len(seq) |-> seq[Len(seq) + 1 - k]]

DbOf(rows) == [ok |-> TRUE, rows |-> rows]

\* the products databases of the ranking calls
RankDbs ==
    {DbOf(rows) : rows \in {<<>>, Catalog, TieCatalog, Reverse(TieCatalog)}}
        \cup {[ok |-> FALSE, rows |-> <<>>]}

\* the largest limit of a ranking call, one more than the rows of a table
MaxLimit == 6

\* the limit of a call: the endpoints take any int
Limits == (0 - 2)..MaxLimit

RankMoods == {PyNone, PyStr(<<>>), PyStr(<<"c","o","m","f","o","r","t">>), PyStr(<<"c","o","z","y">>)}

\* budgets, in hundredths
RankBudgets == {PyNone, PyNum(0), PyNum(700), PyNum(1000)}

RankDietary ==
    {PyNone, PyList(<<>>), Tags(<< <<"v","e","g","a","n">> >>), Tags(<< <<"v","e","g","a","n">>, <<"g","l","u","t","e","n","_","f","r","e","e">> >>),
     Tags(<< <<"v","e","g","a","n">>, <<"v","e","g","a","n">> >>)}

RankNutrients ==
    {PyNone, PyStr(<<"p","r","o","t","e","i","n">>), PyStr(<<"l","o","w","_","c","a","r","b">>), PyStr(<<"l","o","w","_","c","a","l","o","r","i","e">>)}

\* the ids asked of collaborative_recommend: those of the tables and an unknown one
CollabIds ==
    {Catalog[k].product_id : k \in 1..Len(Catalog)}
        \cup {TieCatalog[k].product_id : k \in 1..Len(TieCatalog)}
        \cup {PyStr(<<"X404">>)}

\* phrases of the messages handed to the deterministic extractor
ExtractPhrases ==
    Phrases \cup { <<"u","n","d","e","r"," ","$","1","2">>, <<"$","1","2">>, <<"$","0">>, <<"p","a","r","t","y">> }

\* messages handed to the deterministic extractor
ExtractMsgs ==
    {JoinWords(ws) : ws \in UNION {[1..n -> ExtractPhrases] : n \in 0..MaxWords}}

\* the same products with other data in the columns that a prompt does not show
Altered(products) ==
    [i \in 1..Len(products) |->
        [products[i] EXCEPT !.description = PyStr(<<"Secret recipe">>),
                            !.calories = PyNum(99900),
                            !.mood_tags = Tags(<< <<"p","a","r","t","y">> >>),
                            !.dietary_tags = PyNone]]

\* candidate lists of two calls that are compared
PairLists ==
    { <<>>, Catalog, Altered(Catalog), SubSeq(Catalog, 1, 4),
      SubSeq(Catalog, 1, 4) \o <<TestProducts[2]>>,
      <<Catalog[1]>>, <<TestProducts[1]>>, <<Catalog[2]>>, TestProducts }
NoCall == [fn |-> "none"]

\* the local variables of a request that has not arrived
IdleReq ==
    [pc |-> "idle", session_id |-> "", message |-> <<>>, sid |-> "", context |-> 0,
     nlu_slots |-> EmptyDict, score_delta |-> 0, read |-> 0, before |-> 0, delta |-> 0,
     total_score |-> 0, products |-> <<>>, reply_obj |-> PyNone, response |-> PyNone,
     trace |-> <<>>, failed |-> {}]

\* the service when GROQ_API_KEY is not set: _call_groq raises
NotConfigured == [kind |-> "raise"]

\* the products database
Db == [ok |-> TRUE, rows |-> Catalog]

DbDown == [ok |-> FALSE, rows |-> <<>>]

\* user messages of the concurrent requests
RaceMsgs == { <<"c","o","m","f","o","r","t","?">>, <<"l","o","v","e"," ","i","t",","," ","i","'","l","l"," ","t","a","k","e"," ","t","h","e"," ","c","o","z","y"," ","o","n","e">> }

-----------------------------------------------------------------------------
(* Spec: chat requests served concurrently, one worker thread each (chat is a   *)
(* plain def, which FastAPI runs in its thread pool).  A thread may be          *)
(* interrupted between any two accesses of CONTEXTS or of a context object; the  *)
(* service is not configured and no stage raises.                                *)

Init ==
    /\ CONTEXTS = [s \in AllSids |-> 0]
    /\ heap = [o \in ObjIds |-> PyNone]
    /\ req = [r \in Reqs |-> IdleReq]
    /\ call = NoCall
    /\ analytics = <<>>

\* lines 82-83: sid, and context = CONTEXTS.get(sid) or _init_context(sid)
Receive(r) ==
    /\ req[r].pc = "idle"
    /\ \E session_id \in SessionInputs, message \in RaceMsgs :
          LET sid == SidOf(session_id, r)
              found == CONTEXTS[sid] # 0
          IN  /\ heap' = IF found THEN heap ELSE [heap EXCEPT ![r] = _init_context(sid)]
              /\ req' = [req EXCEPT ![r] =
                            [@ EXCEPT !.pc = "store", !.session_id = session_id,
                                      !.message = message, !.sid = sid,
                                      !.context = IF found THEN CONTEXTS[sid] ELSE r]]
    /\ UNCHANGED <<CONTEXTS, call, analytics>>

\* line 84: CONTEXTS[sid] = context
Store(r) ==
    /\ req[r].pc = "store"
    /\ CONTEXTS' = [CONTEXTS EXCEPT ![req[r].sid] = req[r].context]
    /\ req' = [req EXCEPT ![r].pc = "extract"]
    /\ UNCHANGED <<heap, call, analytics>>

\* stage 1, lines 87-92
Extract(r) ==
    /\ req[r].pc = "extract"
    /\ req' = [req EXCEPT ![r] =
                  [@ EXCEPT !.pc = "append",
                            !.nlu_slots = ChatNlu(req[r].message, NotConfigured, FALSE),
                            !.trace = Append(@, "extract")]]
    /\ UNCHANGED <<CONTEXTS, heap, call, analytics>>

\* stage 2, convo.py lines 37-46: the slots, the delta, and history.append
AppendTurn(r) ==
    /\ req[r].pc = "append"
    /\ LET nlu == simple_nlu(req[r].message)
           score_delta == ScoreDelta(nlu)
       IN  /\ heap' = [heap EXCEPT ![req[r].context].history =
                          Append(@, Turn(req[r].message, nlu, score_delta))]
           /\ req' = [req EXCEPT ![r] = [@ EXCEPT !.pc = "read", !.score_delta = score_delta]]
    /\ UNCHANGED <<CONTEXTS, call, analytics>>

\* convo.py line 47, right-hand side: context.get('accumulated_score', 0)
ReadScore(r) ==
    /\ req[r].pc = "read"
    /\ req' = [req EXCEPT ![r] =
                  [@ EXCEPT !.pc = "write", !.read = heap[req[r].context].accumulated_score]]
    /\ UNCHANGED <<CONTEXTS, heap, call, analytics>>

\* convo.py line 47, the store into context['accumulated_score']
WriteScore(r) ==
    /\ req[r].pc = "write"
    /\ heap' = [heap EXCEPT ![req[r].context].accumulated_score =
                   Clamp(req[r].read, req[r].score_delta)]
    /\ req' = [req EXCEPT ![r].pc = "return"]
    /\ UNCHANGED <<CONTEXTS, call, analytics>>

\* convo.py line 48 and app.py line 96: the values returned and unpacked
ReturnScore(r) ==
    /\ req[r].pc = "return"
    /\ req' = [req EXCEPT ![r] =
                  [@ EXCEPT !.pc = "restore", !.delta = req[r].score_delta,
                            !.total_score = heap[req[r].context].accumulated_score,
                            !.trace = Append(@, "score")]]
    /\ UNCHANGED <<CONTEXTS, heap, call, analytics>>

\* line 97: CONTEXTS[sid] = context
Restore(r) ==
    /\ req[r].pc = "restore"
    /\ CONTEXTS' = [CONTEXTS EXCEPT ![req[r].sid] = req[r].context]
    /\ req' = [req EXCEPT ![r].pc = "rank"]
    /\ UNCHANGED <<heap, call, analytics>>

\* stage 3, lines 103-114
Rank(r) ==
    /\ req[r].pc = "rank"
    /\ req' = [req EXCEPT ![r] =
                  [@ EXCEPT !.pc = "reply", !.products = ChatProducts(req[r].nlu_slots, Db),
                            !.trace = Append(@, "rank")]]
    /\ UNCHANGED <<CONTEXTS, heap, call, analytics>>

\* stage 4, lines 117-126
Reply(r) ==
    /\ req[r].pc = "reply"
    /\ req' = [req EXCEPT ![r] =
                  [@ EXCEPT !.pc = "log",
                            !.reply_obj = ChatReply(heap[req[r].context], req[r].message,
                                                    req[r].products, req[r].total_score,
                                                    NotConfigured, FALSE),
                            !.trace = Append(@, "reply")]]
    /\ UNCHANGED <<CONTEXTS, heap, call, analytics>>

\* stage 5, lines 129-142
Log(r) ==
    /\ req[r].pc = "log"
    /\ analytics' = Append(analytics,
                           LogRow(req[r].sid, heap[req[r].context], req[r].message,
                                  req[r].reply_obj, req[r].total_score, req[r].products))
    /\ req' = [req EXCEPT ![r] = [@ EXCEPT !.pc = "respond", !.trace = Append(@, "log")]]
    /\ UNCHANGED <<CONTEXTS, heap, call>>

\* lines 144-152
Respond(r) ==
    /\ req[r].pc = "respond"
    /\ req' = [req EXCEPT ![r] =
                  [@ EXCEPT !.pc = "done",
                            !.response = Response(req[r].sid, req[r].reply_obj,
                                                  req[r].total_score, req[r].delta,
                                                  req[r].nlu_slots)]]
    /\ UNCHANGED <<CONTEXTS, heap, call, analytics>>

Next ==
    \E r \in Reqs :
        \/ Receive(r)
        \/ Store(r)
        \/ Extract(r)
        \/ AppendTurn(r)
        \/ ReadScore(r)
        \/ WriteScore(r)
        \/ ReturnScore(r)
        \/ Restore(r)
        \/ Rank(r)
        \/ Reply(r)
        \/ Log(r)
        \/ Respond(r)

Spec == Init /\ [][Next]_vars

-----------------------------------------------------------------------------
(* SpecChat: chat requests served one after the other, with every behaviour of *)
(* the service and of the databases: a stage's call may raise (fault), the      *)
(* products database may be unreadable, log_turn may fail.                      *)

\* answers of the service in the pipeline: none, a valid object, prose
ChatNluServices ==
    { NotConfigured,
      [kind |-> "text",
       out |-> PyStr(Obj(<< KV("mood", Str(<<"c","o","z","y">>)), KV("budget", <<"1", "0">>),
                            KV("dietary", Lst(<<Str(<<"v","e","g","a","n">>)>>)) >>))],
      [kind |-> "text", out |-> PyStr(<<"sorry", ",", " ", "no", " ", "json">>)] }

ChatReplyServices ==
    { NotConfigured,
      [kind |-> "text",
       out |-> PyStr(Obj(<< KV("reply", S("Try R002")),
                            KV("suggested", Lst(<<S("R002"), S("X999")>>)) >>))],
      [kind |-> "text", out |-> PyStr(<<" ", "Try", " ", "the", " ", "rice", "!">>)] }

InitChat ==
    /\ CONTEXTS = [s \in AllSids |-> 0]
    /\ heap = [o \in ObjIds |-> PyNone]
    /\ req = [r \in Reqs |-> IdleReq]
    /\ call = [fn |-> "chat", n |-> 0]
    /\ analytics = <<>>

\* the request arrives: lines 82-84
ChatReceive ==
    /\ req[1].pc \in {"idle", "done"}
    /\ call.n < MaxChats
    /\ \E session_id \in SessionInputs, message \in RaceMsgs :
          LET sid == SidOf(session_id, call.n + 1)
              found == CONTEXTS[sid] # 0
              ref == IF found THEN CONTEXTS[sid] ELSE call.n + 1
          IN  /\ heap' = IF found THEN heap ELSE [heap EXCEPT ![ref] = _init_context(sid)]
              /\ CONTEXTS' = [CONTEXTS EXCEPT ![sid] = ref]
              /\ req' = [req EXCEPT ![1] =
                            [IdleReq EXCEPT !.pc = "extract", !.session_id = session_id,
                                            !.message = message, !.sid = sid,
                                            !.context = ref,
                                            !.before = heap'[ref].accumulated_score]]
    /\ call' = [call EXCEPT !.n = @ + 1]
    /\ UNCHANGED analytics

\* stage 1, lines 87-92
ChatExtract ==
    /\ req[1].pc = "extract"
    /\ \E svc \in ChatNluServices, fault \in BOOLEAN :
          req' = [req EXCEPT ![1] =
                     [@ EXCEPT !.pc = "score",
                               !.nlu_slots = ChatNlu(req[1].message, svc, fault),
                               !.trace = Append(@, "extract"),
                               !.failed = IF fault THEN @ \cup {"extract"} ELSE @]]
    /\ UNCHANGED <<CONTEXTS, heap, call, analytics>>

\* stage 2, lines 95-100; a fault is raised by the slot extraction, before the
\* context is touched
ChatScore ==
    /\ req[1].pc = "score"
    /\ \E fault \in BOOLEAN :
          LET ret == update_context_and_score(heap[req[1].context], req[1].message)
          IN  /\ heap' = IF fault THEN heap ELSE [heap EXCEPT ![req[1].context] = ret.context]
              /\ req' = [req EXCEPT ![1] =
                            [@ EXCEPT !.pc = "rank",
                                      !.delta =
                                          IF fault THEN ScoreExcept(heap[req[1].context]).delta
                                          ELSE ret.score_delta,
                                      !.total_score =
                                          IF fault
                                          THEN ScoreExcept(heap[req[1].context]).total_score
                                          ELSE ret.accumulated_score,
                                      !.trace = Append(@, "score"),
                                      !.failed = IF fault THEN @ \cup {"score"} ELSE @]]
    /\ UNCHANGED <<CONTEXTS, call, analytics>>

\* a ranking stage without its try block: the request ends where the ranking raises
ChatRank_Unprotected ==
    /\ req[1].pc = "rank"
    /\ \E db \in {Db, DbDown} :
          req' = [req EXCEPT ![1] =
                     [@ EXCEPT !.pc = IF db.ok THEN "reply" ELSE "aborted",
                               !.products = ChatProducts(req[1].nlu_slots, db),
                               !.trace = Append(@, "rank"),
                               !.failed = IF ~db.ok THEN @ \cup {"rank"} ELSE @]]
    /\ UNCHANGED <<CONTEXTS, heap, call, analytics>>

\* stage 3, lines 103-114
ChatRank ==
    /\ req[1].pc = "rank"
    /\ \E db \in {Db, DbDown} :
          req' = [req EXCEPT ![1] =
                     [@ EXCEPT !.pc = "reply",
                               !.products = ChatProducts(req[1].nlu_slots, db),
                               !.trace = Append(@, "rank"),
                               !.failed = IF ~db.ok THEN @ \cup {"rank"} ELSE @]]
    /\ UNCHANGED <<CONTEXTS, heap, call, analytics>>

\* stage 4, lines 117-126
ChatReplyStage ==
    /\ req[1].pc = "reply"
    /\ \E svc \in ChatReplyServices, fault \in BOOLEAN :
          req' = [req EXCEPT ![1] =
                     [@ EXCEPT !.pc = "log",
                               !.reply_obj = ChatReply(heap[req[1].context], req[1].message,
                                                       req[1].products, req[1].total_score,
                                                       svc, fault),
                               !.trace = Append(@, "reply"),
                               !.failed = IF fault THEN @ \cup {"reply"} ELSE @]]
    /\ UNCHANGED <<CONTEXTS, heap, call, analytics>>

\* a logging stage without its try block: the request ends where log_turn raises
ChatLog_Unprotected ==
    /\ req[1].pc = "log"
    /\ \E fault \in BOOLEAN :
          /\ analytics' =
                IF fault THEN analytics
                ELSE Append(analytics,
                            LogRow(req[1].sid, heap[req[1].context], req[1].message,
                                   req[1].reply_obj, req[1].total_score, req[1].products))
          /\ req' = [req EXCEPT ![1] =
                        [@ EXCEPT !.pc = IF fault THEN "aborted" ELSE "respond",
                                  !.trace = Append(@, "log"),
                                  !.failed = IF fault THEN @ \cup {"log"} ELSE @]]
    /\ UNCHANGED <<CONTEXTS, heap, call>>

\* stage 5, lines 129-142
ChatLog ==
    /\ req[1].pc = "log"
    /\ \E fault \in BOOLEAN :
          /\ analytics' =
                IF fault THEN analytics
                ELSE Append(analytics,
                            LogRow(req[1].sid, heap[req[1].context], req[1].message,
                                   req[1].reply_obj, req[1].total_score, req[1].products))
          /\ req' = [req EXCEPT ![1] =
                        [@ EXCEPT !.pc = "respond", !.trace = Append(@, "log"),
                                  !.failed = IF fault THEN @ \cup {"log"} ELSE @]]
    /\ UNCHANGED <<CONTEXTS, heap, call>>

\* lines 144-152
ChatRespond ==
    /\ req[1].pc = "respond"
    /\ req' = [req EXCEPT ![1] =
                  [@ EXCEPT !.pc = "done",
                            !.response = Response(req[1].sid, req[1].reply_obj,
                                                  req[1].total_score, req[1].delta,
                                                  req[1].nlu_slots)]]
    /\ UNCHANGED <<CONTEXTS, heap, call, analytics>>

NextChat ==
    \/ ChatReceive
    \/ ChatExtract
    \/ ChatScore
    \/ ChatRank
    \/ ChatReplyStage
    \/ ChatLog
    \/ ChatRespond

SpecChat == InitChat /\ [][NextChat]_vars

-----------------------------------------------------------------------------
(* app.py: chat() and recommend_from_context() as whole handlers *)

\* a stage 2 that scores the slots of stage 1
ChatUpdate_FromSlots(context, message, nlu_slots) ==
    UpdateWithNlu(context, message, nlu_slots)

\* stage 2, line 96: the slots of stage 1 are not handed to the scoring
ChatUpdate(context, message, nlu_slots) == update_context_and_score(context, message)

\* stage 5 and the return of chat: the stored context, the logged row, the response
ChatAfterReply(sid, message, nlu_slots, upd, products, reply_obj) ==
    [context |-> upd.context,
     log |-> LogRow(sid, upd.context, message, reply_obj, upd.accumulated_score, products),
     response |-> Response(sid, reply_obj, upd.accumulated_score, upd.score_delta,
                           nlu_slots)]

\* stage 4 and what follows
ChatAfterRank(sid, message, nlu_slots, upd, products, reply_svc) ==
    ChatAfterReply(sid, message, nlu_slots, upd, products,
                   ChatReply(upd.context, message, products, upd.accumulated_score,
                             reply_svc, FALSE))

\* stages 2 and 3 and what follows
ChatAfterNlu(sid, context, message, nlu_slots, reply_svc, db) ==
    ChatAfterRank(sid, message, nlu_slots, ChatUpdate(context, message, nlu_slots),
                  ChatProducts(nlu_slots, db), reply_svc)

\* chat() on the context of the session, run without interruption
chat(sid, context, message, nlu_svc, reply_svc, db) ==
    ChatAfterNlu(sid, context, message, ChatNlu(message, nlu_svc, FALSE), reply_svc, db)

\* the arguments that recommend_from_context takes from the intents, lines 165-172
RecommendArgs(intents) ==
    [mood |-> Get(intents, "mood", PyNone),
     budget |-> Get(intents, "budget", PyNone),
     dietary |-> IF Get(intents, "dietary", PyNone).t = "list"
                 THEN Get(intents, "dietary", PyNone) ELSE PyNone,
     nutrient |-> Get(intents, "nutrient", PyNone)]

\* the ranking of recommend_from_context for these arguments, lines 165-175
RecommendWith(args, limit, db) ==
    RankExcept(recommend_by_preferences(args.mood, args.budget, args.dietary,
                                        args.nutrient, limit, db))

\* the row that recommend_from_context logs, lines 178-187
RecommendLogRow(session_id, context, recs) ==
    [session_id |-> session_id, turn |-> TurnNum(context),
     user_message |-> <<"[SYSTEM] recommend_from_context">>,
     bot_reply |-> PyStr(DigitsOf(Len(recs)) \o <<" recommended">>),
     interest_score |-> context.accumulated_score,
     intents |-> context.intents,
     recommended |-> [i \in 1..Len(recs) |-> Get(recs[i], "product_id", PyNone)]]

\* recommend_from_context for a session that exists
recommend_from_context(session_id, context, limit, db) ==
    [session_id |-> session_id,
     args |-> RecommendArgs(context.intents),
     results |-> RecommendWith(RecommendArgs(context.intents), limit, db),
     intents |-> context.intents]

-----------------------------------------------------------------------------
(* SpecSession: chat and recommend_from_context requests served one after the *)
(* other.  Every chat request is served a second time by a second instance of  *)
(* the program whose service fails on every call: the object o of the first    *)
(* instance is the object o + MaxTurns of the second.                          *)

\* session ids of the requests
SessionSids == Sids \cup {Uuid(r) : r \in 1..MaxTurns}

SessionMsgs == RaceMsgs \cup { <<"h","e","l","l","o">> }

\* answers of the service to the reply prompt: none, prose
SessionReplyServices ==
    { NotConfigured,
      [kind |-> "text", out |-> PyStr(<<" ", "Try", " ", "the", " ", "rice", "!">>)] }

InitSession ==
    /\ CONTEXTS = [s \in SessionSids |-> 0]
    /\ heap = [o \in 1..(2 * MaxTurns) |-> PyNone]
    /\ req = [r \in Reqs |-> IdleReq]
    /\ call = [fn |-> "none", n |-> 0]
    /\ analytics = <<>>

\* the context of session sid in the instance whose objects start after `base`
SessionContext(sid, base) ==
    IF CONTEXTS[sid] # 0 THEN heap[CONTEXTS[sid] + base] ELSE _init_context(sid)

SessionChat ==
    /\ call.n < MaxTurns
    /\ \E session_id \in SessionInputs, message \in SessionMsgs,
          nlu_svc \in ChatNluServices, reply_svc \in SessionReplyServices :
          /\ call' = [fn |-> "chat", n |-> call.n + 1,
                      sid |-> SidOf(session_id, call.n + 1),
                      ref |-> IF CONTEXTS[SidOf(session_id, call.n + 1)] # 0
                              THEN CONTEXTS[SidOf(session_id, call.n + 1)]
                              ELSE call.n + 1,
                      message |-> message,
                      out |-> chat(SidOf(session_id, call.n + 1),
                                   SessionContext(SidOf(session_id, call.n + 1), 0),
                                   message, nlu_svc, reply_svc, Db),
                      failing |-> chat(SidOf(session_id, call.n + 1),
                                       SessionContext(SidOf(session_id, call.n + 1),
                                                      MaxTurns),
                                       message, NotConfigured, NotConfigured, Db)]
          /\ CONTEXTS' = [CONTEXTS EXCEPT ![call'.sid] = call'.ref]
          /\ heap' = [heap EXCEPT ![call'.ref] = call'.out.context,
                                  ![call'.ref + MaxTurns] = call'.failing.context]
          /\ analytics' = Append(analytics, call'.out.log)
    /\ UNCHANGED req

SessionRecommend ==
    /\ call.n < MaxTurns
    /\ \E session_id \in SessionSids :
          IF CONTEXTS[session_id] = 0
          THEN /\ call' = [fn |-> "recommend_from_context", n |-> call.n + 1,
                           sid |-> session_id, status |-> 404]
               /\ UNCHANGED analytics
          ELSE /\ call' = [fn |-> "recommend_from_context", n |-> call.n + 1,
                           sid |-> session_id, status |-> 200,
                           out |-> recommend_from_context(session_id,
                                                          heap[CONTEXTS[session_id]],
                                                          6, Db)]
               /\ analytics' = Append(analytics,
                                      RecommendLogRow(session_id,
                                                      heap[CONTEXTS[session_id]],
                                                      call'.out.results))
    /\ UNCHANGED <<CONTEXTS, heap, req>>

NextSession ==
    \/ SessionChat
    \/ SessionRecommend

SpecSession == InitSession /\ [][NextSession]_vars
-----------------------------------------------------------------------------
(* SpecScore: update_context_and_score called again and again on one context *)

InitScore ==
    /\ CONTEXTS = [s \in AllSids |-> 0]
    /\ heap \in {[o \in ObjIds |-> IF o = 1 THEN c ELSE PyNone] :
                    c \in {PyNone, _init_context("s1")}}
    /\ req = [r \in Reqs |-> IdleReq]
    /\ call = NoCall
    /\ analytics = <<>>

ScoreCall ==
    /\ (IF heap[1] = PyNone THEN 0 ELSE Len(heap[1].history)) < MaxTurns
    /\ \E text \in ChatMsgs :
          call' = [fn |-> "update_context_and_score", text |-> text,
                   previous |-> IF heap[1] = PyNone THEN 0 ELSE heap[1].accumulated_score,
                   before |-> IF heap[1] = PyNone THEN <<>> ELSE heap[1].history,
                   ret |-> update_context_and_score(heap[1], text)]
    /\ heap' = [heap EXCEPT ![1] = call'.ret.context]
    /\ UNCHANGED <<CONTEXTS, req, analytics>>

NextScore == ScoreCall

SpecScore == InitScore /\ [][NextScore]_vars

-----------------------------------------------------------------------------
(* SpecNlu: one call of parse_nlu_with_llm *)

InitNlu ==
    /\ CONTEXTS = [s \in AllSids |-> 0]
    /\ heap = [o \in ObjIds |-> PyNone]
    /\ req = [r \in Reqs |-> IdleReq]
    /\ analytics = <<>>
    /\ \E message \in Msgs, svc \in Services(NluTexts) :
          call = [fn |-> "parse_nlu_with_llm", message |-> message, svc |-> svc,
                  done |-> FALSE]

NluCall ==
    /\ call.fn = "parse_nlu_with_llm" /\ ~call.done
    /\ call' = [fn |-> call.fn, message |-> call.message, svc |-> call.svc, done |-> TRUE,
                ret |-> parse_nlu_with_llm(call.message, call.svc)]
    /\ UNCHANGED <<CONTEXTS, heap, req, analytics>>

NextNlu == NluCall

SpecNlu == InitNlu /\ [][NextNlu]_vars

-----------------------------------------------------------------------------
(* SpecReply: one call of generate_reply_with_llm *)

InitReply ==
    /\ CONTEXTS = [s \in AllSids |-> 0]
    /\ heap = [o \in ObjIds |-> PyNone]
    /\ req = [r \in Reqs |-> IdleReq]
    /\ analytics = <<>>
    /\ \E context \in {EmptyDict, _init_context("s1")},
          message \in {<<"T","e","l","l"," ","m","e"," ","a","b","o","u","t"," ","c","h","i","c","k","e","n"," ","f","r","i","e","d"," ","r","i","c","e">>, <<"s","a","y"," ","\"","h","i","\"">>},
          products \in CandLists, score \in {0, 70}, svc \in Services(ReplyTexts) :
          call = [fn |-> "generate_reply_with_llm", context |-> context,
                  message |-> message, products |-> products, score |-> score,
                  svc |-> svc, done |-> FALSE]

ReplyCall ==
    /\ call.fn = "generate_reply_with_llm" /\ ~call.done
    /\ call' = [fn |-> call.fn, context |-> call.context, message |-> call.message,
                products |-> call.products, score |-> call.score, svc |-> call.svc,
                done |-> TRUE,
                prompt |-> ReplyPrompt(call.context, call.message, call.products, call.score),
                ret |-> generate_reply_with_llm(call.context, call.message, call.products,
                                                call.score, call.svc)]
    /\ UNCHANGED <<CONTEXTS, heap, req, analytics>>

NextReply == ReplyCall

SpecReply == InitReply /\ [][NextReply]_vars


-----------------------------------------------------------------------------
(* SpecRank: one call of recommend_by_preferences *)

InitRank ==
    /\ CONTEXTS = [s \in AllSids |-> 0]
    /\ heap = [o \in ObjIds |-> PyNone]
    /\ req = [r \in Reqs |-> IdleReq]
    /\ analytics = <<>>
    /\ \E mood \in RankMoods, budget \in RankBudgets, dietary \in RankDietary,
          nutrient \in RankNutrients, limit \in Limits, db \in RankDbs :
          call = [fn |-> "recommend_by_preferences", mood |-> mood, budget |-> budget,
                  dietary |-> dietary, nutrient |-> nutrient, limit |-> limit,
                  db |-> db, done |-> FALSE]

RankCall ==
    /\ call.fn = "recommend_by_preferences" /\ ~call.done
    /\ call' = [fn |-> call.fn, mood |-> call.mood, budget |-> call.budget,
                dietary |-> call.dietary, nutrient |-> call.nutrient,
                limit |-> call.limit, db |-> call.db, done |-> TRUE,
                ret |-> recommend_by_preferences(call.mood, call.budget, call.dietary,
                                                 call.nutrient, call.limit, call.db)]
    /\ UNCHANGED <<CONTEXTS, heap, req, analytics>>

NextRank == RankCall

SpecRank == InitRank /\ [][NextRank]_vars

-----------------------------------------------------------------------------
(* SpecCollab: one call of collaborative_recommend *)

InitCollab ==
    /\ CONTEXTS = [s \in AllSids |-> 0]
    /\ heap = [o \in ObjIds |-> PyNone]
    /\ req = [r \in Reqs |-> IdleReq]
    /\ analytics = <<>>
    /\ \E product_id \in CollabIds, limit \in Limits, db \in RankDbs :
          call = [fn |-> "collaborative_recommend", product_id |-> product_id,
                  limit |-> limit, db |-> db, done |-> FALSE]

CollabCall ==
    /\ call.fn = "collaborative_recommend" /\ ~call.done
    /\ call' = [fn |-> call.fn, product_id |-> call.product_id, limit |-> call.limit,
                db |-> call.db, done |-> TRUE,
                ret |-> collaborative_recommend(call.product_id, call.limit, call.db)]
    /\ UNCHANGED <<CONTEXTS, heap, req, analytics>>

NextCollab == CollabCall

SpecCollab == InitCollab /\ [][NextCollab]_vars

-----------------------------------------------------------------------------
(* SpecExtract: simple_nlu on one message, and update_context_and_score on the *)
(* same message with a new context                                             *)

InitExtract ==
    /\ CONTEXTS = [s \in AllSids |-> 0]
    /\ heap = [o \in ObjIds |-> PyNone]
    /\ req = [r \in Reqs |-> IdleReq]
    /\ analytics = <<>>
    /\ \E text \in ExtractMsgs :
          call = [fn |-> "simple_nlu", text |-> text, done |-> FALSE]

ExtractCall ==
    /\ call.fn = "simple_nlu" /\ ~call.done
    /\ call' = [fn |-> call.fn, text |-> call.text, done |-> TRUE,
                nlu |-> simple_nlu(call.text),
                ret |-> update_context_and_score(PyNone, call.text)]
    /\ UNCHANGED <<CONTEXTS, heap, req, analytics>>

NextExtract == ExtractCall

SpecExtract == InitExtract /\ [][NextExtract]_vars

-----------------------------------------------------------------------------
(* SpecReplyPair: two calls of generate_reply_with_llm that differ in their *)
(* candidate lists only                                                     *)

InitReplyPair ==
    /\ CONTEXTS = [s \in AllSids |-> 0]
    /\ heap = [o \in ObjIds |-> PyNone]
    /\ req = [r \in Reqs |-> IdleReq]
    /\ analytics = <<>>
    /\ \E context \in {EmptyDict, _init_context("s1")},
          message \in {<<"T","e","l","l"," ","m","e"," ","a","b","o","u","t"," ","c","h","i","c","k","e","n"," ","f","r","i","e","d"," ","r","i","c","e">>},
          products \in PairLists, other \in PairLists, score \in {0, 70},
          svc \in Services(ReplyTexts) :
          call = [fn |-> "generate_reply_with_llm twice", context |-> context,
                  message |-> message, products |-> products, other |-> other,
                  score |-> score, svc |-> svc, done |-> FALSE]

ReplyPairCall ==
    /\ call.fn = "generate_reply_with_llm twice" /\ ~call.done
    /\ call' = [fn |-> call.fn, context |-> call.context, message |-> call.message,
                products |-> call.products, other |-> call.other,
                score |-> call.score, svc |-> call.svc, done |-> TRUE,
                prompt |-> ReplyPrompt(call.context, call.message, call.products, call.score),
                ret |-> generate_reply_with_llm(call.context, call.message, call.products,
                                                call.score, call.svc),
                other_prompt |->
                    ReplyPrompt(call.context, call.message, call.other, call.score),
                other_ret |-> generate_reply_with_llm(call.context, call.message,
                                                      call.other, call.score, call.svc)]
    /\ UNCHANGED <<CONTEXTS, heap, req, analytics>>

NextReplyPair == ReplyPairCall

SpecReplyPair == InitReplyPair /\ [][NextReplyPair]_vars
-----------------------------------------------------------------------------
(* Claims *)

\* C1: in every state reached by update_context_and_score calls on a context that
\* starts at score 0, accumulated_score is an integer between 0 and 100.
C1_ScoreInRange ==
    \A o \in ObjIds :
        heap[o] # PyNone =>
            /\ heap[o].accumulated_score \in Int
            /\ 0 <= heap[o].accumulated_score
            /\ heap[o].accumulated_score <= 100

\* a call whose raw sum passes 100 and is clamped
C1_Witness ==
    /\ call.fn = "update_context_and_score"
    /\ call.previous > 0
    /\ call.previous + call.ret.score_delta > 100
    /\ heap[1].accumulated_score = 100

\* the requests that came for session s
RequestsOf(s) == {r \in Reqs : req[r].pc # "idle" /\ req[r].sid = s}

RECURSIVE SumOfDeltas(_)
\* the sum of the score deltas of the requests rs
SumOfDeltas(rs) ==
    IF rs = {} THEN 0
    ELSE LET r == CHOOSE x \in rs : TRUE
         IN  req[r].score_delta + SumOfDeltas(rs \ {r})

\* C2: whatever the interleaving of the chat requests of one session id (two first
\* contacts included), no score update is lost: once all requests have returned, the
\* stored context of the session holds one turn per request and its accumulated_score
\* is the result of applying the requests' deltas one after another (deltas are not
\* negative, so every serial order gives min(100, their sum)).
C2_NoLostUpdate ==
    (\A r \in Reqs : req[r].pc = "done") =>
        \A s \in AllSids :
            RequestsOf(s) # {} =>
                /\ CONTEXTS[s] # 0
                /\ Len(heap[CONTEXTS[s]].history) = Cardinality(RequestsOf(s))
                /\ heap[CONTEXTS[s]].accumulated_score = Min(100, SumOfDeltas(RequestsOf(s)))

\* the four keys of a reply
ReplyKeys == {"reply", "suggested", "mention_spice", "debug"}

\* C3: generate_reply_with_llm never raises: whatever the context, the message, the
\* candidates, the score and the behaviour of the service, it returns a record with
\* the keys reply, suggested, mention_spice and debug.
C3_NeverRaises ==
    (call.fn = "generate_reply_with_llm" /\ call.done) =>
        /\ ~call.ret.raised
        /\ DOMAIN call.ret.val = ReplyKeys

\* the service answered JSON that is not an object, for a non-empty candidate list, and
\* the call returned the fallback
C3_Witness ==
    /\ call.fn = "generate_reply_with_llm" /\ call.done
    /\ call.svc = [kind |-> "text", out |-> PyStr(Lst(<<S("R001")>>))]
    /\ call.products # <<>>
    /\ ~call.ret.raised
    /\ call.ret.val.debug = PyStr(<<"fallback">>)

\* the text of the service fails to parse as JSON after brace isolation and repair
FailsToParse(out) ==
    /\ ~json_loads(PyOr(_extract_json(out), out).s).ok
    /\ ~json_loads(_clean_json_string(PyOr(_extract_json(out), out).s)).ok

\* the service answered with a text that is empty or is no JSON
MalformedAnswer(svc) ==
    /\ svc.kind = "text"
    /\ svc.out # PyNone
    /\ (svc.out.s = <<>> \/ FailsToParse(svc.out))

\* what _fallback_reply gives for the arguments of the call
FallbackOfCall ==
    _fallback_reply(call.context, call.message, safe_products(call.products), call.score)

C5_SuggestedFromCandidates ==
    (call.fn = "generate_reply_with_llm" /\ call.done /\ ~call.ret.raised) =>
        /\ call.ret.val.suggested.t = "list"
        /\ Len(call.ret.val.suggested.l) <= 3
        /\ \A k \in 1..Len(call.ret.val.suggested.l) :
              \E i \in 1..Len(call.products) :
                  Get(call.products[i], "product_id", PyNone) = call.ret.val.suggested.l[k]

\* C6: when the call of the service raises, parse_nlu_with_llm returns without raising
\* the slots of the deterministic extractor simple_nlu for the message: its first mood,
\* its budget, its dietary terms and its spicy, order, enthusiasm and question flags.
C6_FallbackIsSimpleNlu ==
    (call.fn = "parse_nlu_with_llm" /\ call.done /\ call.svc.kind = "raise") =>
        /\ ~call.ret.raised
        /\ call.ret.val.mood = Get(simple_nlu(call.message), "mood", PyNone)
        /\ call.ret.val.budget = Get(simple_nlu(call.message), "budget", PyNone)
        /\ call.ret.val.dietary = Get(simple_nlu(call.message), "dietary", PyList(<<>>))
        /\ call.ret.val.spicy = PyBool("spicy" \in DOMAIN simple_nlu(call.message))
        /\ call.ret.val.order = PyBool("order" \in DOMAIN simple_nlu(call.message))
        /\ call.ret.val.enthusiasm = PyBool("enthusiasm" \in DOMAIN simple_nlu(call.message))
        /\ call.ret.val.question = PyBool("question" \in DOMAIN simple_nlu(call.message))

\* C7: when the service answers the intent request with a text that still fails to
\* parse as JSON after brace isolation and repair, parse_nlu_with_llm returns the slots
\* of _fallback_nlu for the message.
C7_UnparsedGivesFallback ==
    (/\ call.fn = "parse_nlu_with_llm" /\ call.done
     /\ call.svc.kind = "text" /\ call.svc.out # PyNone
     /\ call.svc.out.s # <<>> /\ FailsToParse(call.svc.out)) =>
        call.ret = Returned(_fallback_nlu(call.message))

\* the weighted sum of C8 over the slots of the deterministic extractor
WeightedSum(slots) ==
      20 * (IF "mood" \in DOMAIN slots THEN 1 ELSE 0)
    + 10 * (IF "dietary" \in DOMAIN slots THEN Len(slots["dietary"].l) ELSE 0)
    + 5 * (IF "budget" \in DOMAIN slots THEN 1 ELSE 0)
    + 10 * (IF "question" \in DOMAIN slots THEN 1 ELSE 0)
    + 8 * (IF "enthusiasm" \in DOMAIN slots THEN 1 ELSE 0)
    + 30 * (IF "order" \in DOMAIN slots THEN 1 ELSE 0)
    + 15 * (IF "spicy" \in DOMAIN slots THEN 1 ELSE 0)

\* max(0, min(100, x))
Within0And100(x) == IF x < 0 THEN 0 ELSE IF x > 100 THEN 100 ELSE x

\* C8: update_context_and_score returns score_delta = 20*[mood] + 10*(number of dietary
\* tags) + 5*[budget] + 10*[question] + 8*[enthusiasm] + 30*[order] + 15*[spicy] over
\* the slots of the deterministic extractor, and sets and returns accumulated_score =
\* max(0, min(100, p + score_delta)) for the previous score p; a first message
\* "comfort?" of a fresh session gives delta 30 and score 30.
C8_DeltaAndScore ==
    call.fn = "update_context_and_score" =>
        /\ call.ret.score_delta = WeightedSum(simple_nlu(call.text))
        /\ call.ret.accumulated_score
              = Within0And100(call.previous + WeightedSum(simple_nlu(call.text)))
        /\ heap[1].accumulated_score = call.ret.accumulated_score
        /\ (call.text = <<"c","o","m","f","o","r","t","?">> /\ call.before = <<>>) =>
              (call.ret.score_delta = 30 /\ heap[1].accumulated_score = 30)

\* three dietary tags on a context that already has a score
C8_Witness ==
    /\ call.fn = "update_context_and_score"
    /\ call.text = <<"v","e","g","a","n"," ","g","l","u","t","e","n","_","f","r","e","e"," ","n","u","t","_","f","r","e","e">>
    /\ call.previous = 30
    /\ call.ret.score_delta = 30
    /\ heap[1].accumulated_score = 60

\* C9: a call of update_context_and_score appends exactly one turn to the end of the
\* history, with role user, the message, the extracted slots and the turn's delta; the
\* turns already there stay as they are and where they are, in every step of the chat
\* pipeline.
C9_AppendOnly ==
    [][ /\ \A o \in ObjIds :
              heap[o] # PyNone =>
                  /\ heap'[o] # PyNone
                  /\ Len(heap'[o].history) >= Len(heap[o].history)
                  /\ SubSeq(heap'[o].history, 1, Len(heap[o].history)) = heap[o].history
        /\ \A r \in Reqs :
              (req[r].pc = "append" /\ req'[r].pc = "read") =>
                  heap'[req[r].context].history
                      = Append(heap[req[r].context].history,
                               [role |-> "user", text |-> req[r].message,
                                nlu |-> simple_nlu(req[r].message),
                                score_delta |-> req'[r].score_delta])
      ]_vars

\* two requests of one session have appended their turns to the same context, the
\* second after the first
C9_Witness ==
    \E o \in ObjIds :
        /\ heap[o] # PyNone
        /\ Len(heap[o].history) = 2
        /\ heap[o].history[1].text # heap[o].history[2].text
        /\ heap[o].history[2].score_delta > 0

\* the stages of chat, in their order
Stages == <<"extract", "score", "rank", "reply", "log">>

\* the number of stages a request at pc has gone through
StagesRun(pc) ==
    CASE pc \in {"idle", "extract"} -> 0
      [] pc = "score" -> 1
      [] pc = "rank" -> 2
      [] pc = "reply" -> 3
      [] pc = "log" -> 4
      [] pc \in {"respond", "done"} -> 5

\* C10: a chat request runs intent extraction, scoring, ranking, reply generation and
\* analytics logging in this order and always returns a response: whichever stages
\* raise, the later stages still run (with no candidates when the ranking failed) and the
\* request is never aborted: it is always at one of the points of the pipeline, having
\* run the stages before that point in their order, and at its end it has a response.
C10_PipelineCompletes ==
    /\ req[1].pc \in {"idle", "extract", "score", "rank", "reply", "log", "respond", "done"}
    /\ req[1].trace = SubSeq(Stages, 1, StagesRun(req[1].pc))
    /\ ("rank" \in req[1].failed) => req[1].products = <<>>
    /\ req[1].pc = "done" =>
          /\ req[1].response # PyNone
          /\ DOMAIN req[1].response
                = {"session_id", "reply", "interest_score", "score_delta", "nlu_slots",
                   "suggested", "debug"}

\* a request whose five stages all failed has returned its response
C10_Witness ==
    /\ req[1].pc = "done"
    /\ req[1].failed = {"extract", "score", "rank", "reply", "log"}
    /\ req[1].trace = Stages
    /\ req[1].products = <<>>
    /\ req[1].response # PyNone

\* C11: if the scoring stage of a chat request raises, the response reports score_delta 0
\* and interest_score equal to the accumulated score the session had before the request,
\* and the stored accumulated score of the session is left as it was.
C11_ScoreFailureKeepsScore ==
    ("score" \in req[1].failed) =>
        /\ req[1].delta = 0
        /\ req[1].total_score = req[1].before
        /\ heap[req[1].context].accumulated_score = req[1].before
        /\ CONTEXTS[req[1].sid] = req[1].context
        /\ req[1].pc = "done" =>
              /\ req[1].response.score_delta = 0
              /\ req[1].response.interest_score = req[1].before

\* a request of a session that already has a score has returned after its scoring failed
C11_Witness ==
    /\ req[1].pc = "done"
    /\ "score" \in req[1].failed
    /\ req[1].before > 0
    /\ ScoreDelta(simple_nlu(req[1].message)) > 0
    /\ req[1].response.score_delta = 0
    /\ req[1].response.interest_score = req[1].before

\* C12: a failure of analytics logging never changes what a chat request returns: the
\* logging stage, whether log_turn succeeds or raises, leaves the request with the same
\* session id, reply, scores and slots and lets it go on, and the response is made of
\* these alone.
C12_LogFailureHidden ==
    [][ /\ req[1].pc = "log" =>
              /\ req'[1].pc = "respond"
              /\ req'[1].sid = req[1].sid
              /\ req'[1].reply_obj = req[1].reply_obj
              /\ req'[1].total_score = req[1].total_score
              /\ req'[1].delta = req[1].delta
              /\ req'[1].nlu_slots = req[1].nlu_slots
        /\ req[1].pc = "respond" =>
              req'[1].response
                  = [session_id |-> req[1].sid,
                     reply |-> req[1].reply_obj.reply,
                     interest_score |-> req[1].total_score,
                     score_delta |-> req[1].delta,
                     nlu_slots |-> req[1].nlu_slots,
                     suggested |-> req[1].reply_obj.suggested,
                     debug |-> req[1].reply_obj.debug]
      ]_vars

\* a request whose logging alone failed has returned its response; nothing was logged
C12_Witness ==
    /\ req[1].pc = "done"
    /\ req[1].failed = {"log"}
    /\ analytics = <<>>
    /\ req[1].response.score_delta > 0
    /\ req[1].response.reply = req[1].reply_obj.reply


\* a finished call of recommend_by_preferences that returned
RankReturned ==
    call.fn = "recommend_by_preferences" /\ call.done /\ ~call.ret.raised

\* C13: recommend_by_preferences never returns more than limit items, whatever the
\* catalog, the mood, the budget, the dietary tags, the nutrient and the limit are
C13_AtMostLimit ==
    RankReturned => Len(call.ret.val) <= call.limit

\* the product ids of a database
IdsOf(db) == {db.rows[k].product_id : k \in 1..Len(db.rows)}

\* the category of the product with this id
CategoryOf(db, product_id) ==
    (CHOOSE row \in {db.rows[k] : k \in 1..Len(db.rows)} : row.product_id = product_id).category

\* C14: collaborative_recommend returns an empty sequence, and does not raise, for a
\* product id that is not in the catalog; for one that is, it returns at most limit
\* products, each of the category of that product and none of them that product, in
\* the order of non-increasing popularity_score
C14_CollabContract ==
    (call.fn = "collaborative_recommend" /\ call.done /\ call.db.ok) =>
        IF call.product_id \notin IdsOf(call.db)
        THEN call.ret = Returned(<<>>)
        ELSE /\ ~call.ret.raised
             /\ Len(call.ret.val) <= call.limit
             /\ \A k \in 1..Len(call.ret.val) :
                   /\ call.ret.val[k].category = CategoryOf(call.db, call.product_id)
                   /\ call.ret.val[k].product_id # call.product_id
             /\ \A j, k \in 1..Len(call.ret.val) :
                   j < k => call.ret.val[j].popularity_score.n
                                >= call.ret.val[k].popularity_score.n

\* a finished call of generate_reply_with_llm in which the call of the service raised
ReplyRaised ==
    call.fn = "generate_reply_with_llm" /\ call.done /\ call.svc.kind = "raise"

Extracted == call.fn = "simple_nlu" /\ call.done

\* the number of the first $N of a text, <<>> when the text has none; every
\* `under $N` holds a `$N` with the same number
FirstDollarAmount(txt) ==
    SearchGroup(txt, [i \in 1..Len(txt) |-> DollarGroupAt(txt, i)])

\* C16: the deterministic extractor sets budget to the number of the first `under $N`
\* or bare `$N` of the message, as a float, for every N >= 0, 0 included
C16_BudgetIsFirstAmount ==
    (Extracted /\ FirstDollarAmount(lower(call.text)) # <<>>) =>
        /\ "budget" \in DOMAIN call.nlu
        /\ call.nlu.budget = PyNum(FloatOfDigits(FirstDollarAmount(lower(call.text))))

\* C17: for a message without a `$` pattern the deterministic extractor leaves budget
\* absent, and update_context_and_score adds no budget weight to the score delta
C17_NoDollarNoBudget ==
    (Extracted /\ FirstDollarAmount(lower(call.text)) = <<>>) =>
        /\ "budget" \notin DOMAIN call.nlu
        /\ "budget" \notin DOMAIN call.ret.nlu
        /\ call.ret.score_delta =
               ScoreDelta([k \in DOMAIN call.nlu \ {"budget"} |-> call.nlu[k]])

\* the moods in the order of their priority
MoodPriority ==
    << <<"a","d","v","e","n","t","u","r","o","u","s">>, <<"c","o","m","f","o","r","t">>, <<"h","e","a","l","t","h","y">>, <<"i","n","d","u","l","g","e","n","t">>, <<"q","u","i","c","k">>,
       <<"r","e","f","r","e","s","h","i","n","g">>, <<"c","o","z","y">>, <<"p","a","r","t","y">> >>

\* C18: the deterministic extractor gives one mood, by priority: the first entry of
\* the list adventurous, comfort, healthy, indulgent, quick, refreshing, cozy, party
\* that occurs in the lower-cased message, wherever the words stand in the message,
\* and none exactly when no entry occurs; cozy with adventurous gives adventurous
C18_MoodByPriority ==
    Extracted =>
        /\ \A k \in 1..Len(MoodPriority) :
              (/\ "mood" \in DOMAIN call.nlu
               /\ call.nlu.mood = PyStr(MoodPriority[k]))
                  <=> /\ contains(MoodPriority[k], lower(call.text))
                      /\ \A j \in 1..(k - 1) : ~contains(MoodPriority[j], lower(call.text))
        /\ "mood" \in DOMAIN call.nlu
              <=> \E k \in 1..Len(MoodPriority) : contains(MoodPriority[k], lower(call.text))
        /\ (contains(<<"c","o","z","y">>, lower(call.text)) /\ contains(<<"a","d","v","e","n","t","u","r","o","u","s">>, lower(call.text)))
              => call.nlu.mood = PyStr(<<"a","d","v","e","n","t","u","r","o","u","s">>)

\* cozy stands before adventurous in the message and adventurous is extracted
C18_Witness ==
    /\ Extracted
    /\ call.text = <<"c","o","z","y"," ","A","d","v","e","n","t","u","r","o","u","s">>
    /\ call.nlu.mood = PyStr(<<"a","d","v","e","n","t","u","r","o","u","s">>)

\* the service answered with a text that yields no JSON value, or an empty one
UnparsedAnswer(svc) ==
    /\ svc.kind = "text"
    /\ svc.out # PyNone
    /\ ~Truthy(_safe_parse_json(PyOr(_extract_json(svc.out), svc.out)))

\* C19 as stated: when no non-empty JSON value can be parsed from the text of the
\* service, generate_reply_with_llm returns that text verbatim as reply, with debug
\* "wrapped_text", suggested empty and mention_spice false
C19_UnparsedIsVerbatim ==
    (call.fn = "generate_reply_with_llm" /\ call.done /\ UnparsedAnswer(call.svc)) =>
        call.ret = Returned([reply |-> call.svc.out,
                             suggested |-> PyList(<<>>),
                             mention_spice |-> PyBool(FALSE),
                             debug |-> PyStr(<<"wrapped_text">>)])

\* C19 amended: when no non-empty JSON value can be parsed from the text of the
\* service, generate_reply_with_llm returns that text without the white space at its
\* two ends as reply, with debug "wrapped_text", suggested empty and mention_spice
\* false, whatever the candidates are
C19_UnparsedIsStripped ==
    (call.fn = "generate_reply_with_llm" /\ call.done /\ UnparsedAnswer(call.svc)) =>
        call.ret = Returned([reply |-> PyStr(strip(call.svc.out.s)),
                             suggested |-> PyList(<<>>),
                             mention_spice |-> PyBool(FALSE),
                             debug |-> PyStr(<<"wrapped_text">>)])

\* the text " Try the rice!\n" came back and is the reply without its two ends
C19_Witness ==
    /\ call.fn = "generate_reply_with_llm" /\ call.done
    /\ UnparsedAnswer(call.svc)
    /\ call.svc.out = PyStr(<<" ", "Try", " ", "the", " ", "rice", "!", "\n">>)
    /\ call.ret.val.reply = PyStr(<<"Try", " ", "the", " ", "rice", "!">>)
    /\ call.ret.val.debug = PyStr(<<"wrapped_text">>)

\* the score of the ranking, times 500: popularity_score, + 25 when the requested mood
\* is among the mood tags, + 12 for each requested dietary tag among the dietary
\* tags, + 10 when the nutrient is protein and calories >= 300, - 0.2 * price
ClaimedScore500(item, mood, dietary, nutrient) ==
      500 * (item.popularity_score.n \div 100)
    + 500 * (IF /\ mood # PyNone /\ mood.s # <<>>
                /\ item.mood_tags # PyNone
                /\ \E k \in 1..Len(item.mood_tags.l) : item.mood_tags.l[k] = mood
             THEN 25 ELSE 0)
    + 500 * 12 * (IF dietary = PyNone \/ item.dietary_tags = PyNone THEN 0
                  ELSE Cardinality({k \in 1..Len(dietary.l) :
                                       \E t \in 1..Len(item.dietary_tags.l) :
                                           item.dietary_tags.l[t] = dietary.l[k]}))
    + 500 * (IF /\ nutrient = PyStr(<<"p","r","o","t","e","i","n">>)
                /\ item.calories # PyNone /\ item.calories.n >= 300 * 100
             THEN 10 ELSE 0)
    - item.price.n

\* the place of a row in the table
CatalogPlace(db, row) == CHOOSE k \in 1..Len(db.rows) : db.rows[k] = row

\* C20: recommend_by_preferences returns rows of the catalog in the order of
\* non-increasing score, the score being popularity_score + 25 for the requested mood
\* among the mood tags + 12 for each requested dietary tag among the dietary tags
\* + 10 for protein with calories >= 300 - 0.2 * price; rows of equal score keep the
\* order of the catalog, so the same catalog and arguments give the same sequence
C20_OrderedByScore ==
    RankReturned =>
        /\ \A k \in 1..Len(call.ret.val) :
              \E p \in 1..Len(call.db.rows) : call.db.rows[p] = call.ret.val[k]
        /\ \A j, k \in 1..Len(call.ret.val) :
              j < k =>
                 \/ ClaimedScore500(call.ret.val[j], call.mood, call.dietary, call.nutrient)
                      > ClaimedScore500(call.ret.val[k], call.mood, call.dietary, call.nutrient)
                 \/ /\ ClaimedScore500(call.ret.val[j], call.mood, call.dietary, call.nutrient)
                         = ClaimedScore500(call.ret.val[k], call.mood, call.dietary,
                                           call.nutrient)
                    /\ CatalogPlace(call.db, call.ret.val[j])
                         < CatalogPlace(call.db, call.ret.val[k])

\* the table T005..T001 ranked whole: T005 and T004 have one score and keep their
\* order, T003 follows with a lower score, T002 and T001 have one score again
C20_Witness ==
    /\ RankReturned
    /\ call.db.rows = Reverse(TieCatalog)
    /\ Len(call.ret.val) = 5
    /\ [k \in 1..5 |-> call.ret.val[k].product_id]
           = <<PyStr(<<"T005">>), PyStr(<<"T004">>), PyStr(<<"T003">>),
               PyStr(<<"T002">>), PyStr(<<"T001">>)>>
    /\ ClaimedScore500(call.ret.val[1], call.mood, call.dietary, call.nutrient)
           = ClaimedScore500(call.ret.val[2], call.mood, call.dietary, call.nutrient)
    /\ ClaimedScore500(call.ret.val[2], call.mood, call.dietary, call.nutrient)
           > ClaimedScore500(call.ret.val[3], call.mood, call.dietary, call.nutrient)

\* C21: every product that recommend_by_preferences returns satisfies all requested
\* clauses at once: price <= budget when a budget is given, 0 included; the requested
\* mood is among its mood tags; every requested dietary tag is among its dietary
\* tags; calories >= 300 for protein, <= 400 for low_carb, <= 250 for low_calorie
C21_AllClausesHold ==
    RankReturned =>
        \A k \in 1..Len(call.ret.val) :
            /\ call.budget # PyNone =>
                  /\ call.ret.val[k].price # PyNone
                  /\ call.ret.val[k].price.n <= call.budget.n
            /\ (call.mood # PyNone /\ call.mood.s # <<>>) =>
                  InList(call.mood, PyOr(call.ret.val[k].mood_tags, PyList(<<>>)))
            /\ call.dietary # PyNone =>
                  \A d \in 1..Len(call.dietary.l) :
                      InList(call.dietary.l[d],
                             PyOr(call.ret.val[k].dietary_tags, PyList(<<>>)))
            /\ call.nutrient = PyStr(<<"p","r","o","t","e","i","n">>) =>
                  call.ret.val[k].calories # PyNone /\ call.ret.val[k].calories.n >= 30000
            /\ call.nutrient = PyStr(<<"l","o","w","_","c","a","r","b">>) =>
                  call.ret.val[k].calories # PyNone /\ call.ret.val[k].calories.n <= 40000
            /\ call.nutrient = PyStr(<<"l","o","w","_","c","a","l","o","r","i","e">>) =>
                  call.ret.val[k].calories # PyNone /\ call.ret.val[k].calories.n <= 25000

\* the fields of a candidate that the prompt shows
VisibleFields == {"product_id", "name", "price", "spice_level", "popularity_score"}

\* two candidate lists agree on the shown fields of their first four candidates
SameVisible(a, b) ==
    /\ Min(4, Len(a)) = Min(4, Len(b))
    /\ \A i \in 1..Min(4, Len(a)) :
          \A f \in VisibleFields :
              (IF f \in DOMAIN a[i] THEN a[i][f] ELSE PyNone)
                  = (IF f \in DOMAIN b[i] THEN b[i][f] ELSE PyNone)

\* C22: the prompt and the result of generate_reply_with_llm do not depend on withheld
\* data of the candidates: two calls with the same context, message, score and answer
\* of the service, whose candidate lists agree on product_id, name, price, spice_level
\* and popularity_score of the first four candidates, send the same prompt and return
\* the same result, whatever the other fields and the later candidates are
C22_WithheldDataHidden ==
    (call.fn = "generate_reply_with_llm twice" /\ call.done
        /\ SameVisible(call.products, call.other)) =>
        /\ call.prompt = call.other_prompt
        /\ call.ret = call.other_ret

\* the catalog and the catalog with other descriptions, calories and tags, the call of
\* the service raising: both calls answer with the fallback for R001
C22_Witness ==
    /\ call.fn = "generate_reply_with_llm twice" /\ call.done
    /\ call.products = Catalog
    /\ call.other = Altered(Catalog)
    /\ call.products[1].description # call.other[1].description
    /\ SameVisible(call.products, call.other)
    /\ call.svc.kind = "raise"
    /\ call.ret = call.other_ret
    /\ call.ret.val.suggested = PyList(<<PyStr(<<"R001">>)>>)

\* no filter of the ranking is set
NoFilter == [mood |-> PyNone, budget |-> PyNone, dietary |-> PyNone, nutrient |-> PyNone]

\* C23: a chat request changes only the history and the accumulated_score of its own
\* session: session_id, intents and seen_intents of the context stay as they are, and
\* so do the contexts of all other sessions; the intents of every session are
\* therefore empty after any sequence of chat requests, and recommend_from_context
\* ranks without a mood, budget, dietary or nutrient filter
C23_OnlyHistoryAndScore ==
    [][ /\ \A s \in DOMAIN CONTEXTS :
              CONTEXTS[s] # 0 =>
                  /\ CONTEXTS'[s] = CONTEXTS[s]
                  /\ heap'[CONTEXTS[s]].session_id = heap[CONTEXTS[s]].session_id
                  /\ heap'[CONTEXTS[s]].intents = heap[CONTEXTS[s]].intents
                  /\ heap'[CONTEXTS[s]].seen_intents = heap[CONTEXTS[s]].seen_intents
                  /\ (call'.fn # "chat" \/ call'.sid # s) =>
                        heap'[CONTEXTS[s]] = heap[CONTEXTS[s]]
        /\ \A s \in DOMAIN CONTEXTS :
              (CONTEXTS[s] = 0 /\ CONTEXTS'[s] # 0) => (call'.fn = "chat" /\ call'.sid = s)
        /\ \A s \in DOMAIN CONTEXTS :
              CONTEXTS'[s] # 0 =>
                  /\ heap'[CONTEXTS'[s]].session_id = s
                  /\ heap'[CONTEXTS'[s]].intents = EmptyDict
                  /\ heap'[CONTEXTS'[s]].seen_intents = {}
        /\ (call'.fn = "recommend_from_context" /\ call'.status = 200) =>
              /\ call'.out.intents = EmptyDict
              /\ call'.out.args = NoFilter
              /\ [k \in 1..Len(call'.out.results) |-> call'.out.results[k].product_id]
                     = <<PyStr(<<"R004">>), PyStr(<<"R001">>), PyStr(<<"R002">>),
                         PyStr(<<"R003">>), PyStr(<<"R005">>)>>
      ]_vars

\* two sessions exist, s1 has a turn with an extracted mood, and recommend_from_context
\* for s1 has ranked the whole catalog
C23_Witness ==
    /\ call.fn = "recommend_from_context" /\ call.status = 200 /\ call.sid = "s1"
    /\ Cardinality({s \in DOMAIN CONTEXTS : CONTEXTS[s] # 0}) = 2
    /\ Len(heap[CONTEXTS["s1"]].history) = 1
    /\ "mood" \in DOMAIN heap[CONTEXTS["s1"]].history[1].nlu
    /\ heap[CONTEXTS["s1"]].accumulated_score > 0
    /\ heap[CONTEXTS["s1"]].intents = EmptyDict
    /\ call.out.args = NoFilter
    /\ Len(call.out.results) = 5

RECURSIVE SumOfTurns(_)
\* the sum of the score deltas of the turns of a history
SumOfTurns(history) ==
    IF history = <<>> THEN 0
    ELSE history[Len(history)].score_delta + SumOfTurns(SubSeq(history, 1, Len(history) - 1))

\* the contexts that the sessions have after the step
StoredAfter == {CONTEXTS'[s] : s \in DOMAIN CONTEXTS'} \ {0}

\* C24: with sequential chat requests on sessions created with score 0, the score_delta
\* of every turn is >= 0 and accumulated_score is min(100, the sum of the score_delta
\* of the turns of the history); so a request never lowers the accumulated score,
\* and a score of 100 stays 100
C24_ScoreIsCappedSum ==
    [][ \A o \in StoredAfter :
            /\ \A t \in 1..Len(heap'[o].history) : heap'[o].history[t].score_delta >= 0
            /\ heap'[o].accumulated_score
                   = (IF SumOfTurns(heap'[o].history) < 100
                      THEN SumOfTurns(heap'[o].history) ELSE 100)
            /\ heap[o] # PyNone =>
                  /\ heap'[o].accumulated_score >= heap[o].accumulated_score
                  /\ heap[o].accumulated_score = 100 => heap'[o].accumulated_score = 100
      ]_vars

\* a session at 100 after two turns whose deltas sum to more has had a third turn, with
\* a positive delta, and is still at 100
C24_Witness ==
    /\ call.fn = "chat" /\ call.n = 3
    /\ Len(heap[call.ref].history) = 3
    /\ heap[call.ref].history[1].score_delta + heap[call.ref].history[2].score_delta > 100
    /\ heap[call.ref].history[3].score_delta > 0
    /\ heap[call.ref].accumulated_score = 100
    /\ call.out.response.interest_score = 100

\* the score deltas of the turns of a stored context, none when there is no context
DeltasOf(context) ==
    IF context = PyNone THEN <<>>
    ELSE [t \in 1..Len(context.history) |-> context.history[t].score_delta]

\* C25: the engagement score does not depend on the service: of two runs of the chat
\* pipeline with the same messages, one with the service answering in any way and one
\* with the service failing on every call, every response has the same score_delta
\* and interest_score and the stored histories have the same deltas, also when the
\* nlu_slots of the responses differ
C25_ScoreIgnoresService ==
    /\ call.fn = "chat" =>
          /\ call.out.response.score_delta = call.failing.response.score_delta
          /\ call.out.response.interest_score = call.failing.response.interest_score
    /\ \A o \in 1..MaxTurns :
          /\ DeltasOf(heap[o]) = DeltasOf(heap[o + MaxTurns])
          /\ heap[o] # PyNone =>
                /\ heap[o + MaxTurns] # PyNone
                /\ heap[o].accumulated_score = heap[o + MaxTurns].accumulated_score

\* the service gave mood, budget and dietary slots for "hello", the failing run none,
\* and both runs report the same delta and score in the second turn of the session
C25_Witness ==
    /\ call.fn = "chat"
    /\ Len(heap[call.ref].history) = 2
    /\ call.out.response.nlu_slots # call.failing.response.nlu_slots
    /\ call.out.response.nlu_slots.mood = PyStr(<<"c","o","z","y">>)
    /\ call.failing.response.nlu_slots.mood = PyNone
    /\ call.out.response.score_delta = call.failing.response.score_delta
    /\ call.out.response.interest_score = call.failing.response.interest_score
    /\ call.out.response.interest_score > call.out.response.score_delta
=============================================================================
